---- MODULE Spec2Model ----
(***************************************************************************)
(* The agent loop of backend/langgraph_agent.py: the process_query turns   *)
(* of LangGraphReActAgent, i.e. the graph reasoning <-> tool_calling with  *)
(* its two routing functions, followed by _format_response, with the two   *)
(* conversation memories (session_histories and the checkpointer) and      *)
(* clear_session_memory.                                                   *)
(***************************************************************************)
EXTENDS Integers, Sequences, FiniteSets, TLC

VARIABLES
    pc,               \* where process_query is: idle, reasoning, tool_calling, END, raised, returned
    messages,         \* AgentState.messages
    user_query,       \* AgentState.user_query: [code_related, notes]
    reasoning,        \* AgentState.reasoning
    current_step,     \* AgentState.current_step
    iteration_count,  \* AgentState.iteration_count
    tool_results,     \* AgentState.tool_results
    goal_achieved,    \* AgentState.goal_achieved
    result,           \* the record process_query returned
    steps,            \* graph super-steps run in this turn
    lastNode,         \* the node that ran last
    lastResp,         \* the model response the last reasoning step obtained
    guardFired,       \* the last reasoning step took the consecutive-failure branch
    reasoningSteps,   \* runs of _reasoning_node in this turn
    toolSteps,        \* runs of _tool_calling_node in this turn
    modelCalls,       \* model invocations made in this turn
    modelRaises,      \* model invocations that raised in this turn
    callsAfterRaise,  \* model invocations and tool dispatches made after the first raise
    fatalError,       \* an except branch of a node ran, or an exception left the graph
    toolNodeRaised,   \* ToolNode.ainvoke raised in this turn
    dispatched,       \* ids of the tool calls handed to the tools, in order
    nextId,           \* next tool-call id
    initialized,      \* LangGraphReActAgent._initialized
    graph,            \* LangGraphReActAgent.graph is set (the compiled graph)
    session_id,       \* the session_id argument of the turn
    session_histories,\* LangGraphReActAgent.session_histories: session id -> stored messages
    checkpoint,       \* the MemorySaver's latest checkpoint: thread id -> channel values
    previous_messages,\* what the memory lookup of the turn found
    input_messages,   \* input_data["messages"] of the turn
    readFrom,         \* the memory the lookup of the turn read: backup, checkpoint, none
    hadBackup,        \* session_histories had an entry for the session when the turn began
    cleared,          \* sessions cleared since their last turn began
    startedCleared,   \* the turn is the first one of its session after a clear
    clearsInRow,      \* session id -> clear_session_memory calls since anything else happened
    afterClear,       \* the two memories as the first clear_session_memory of a row left them
    turns,            \* process_query calls so far
    tasks,            \* transport: client -> the handler task serving its request
    queries,          \* transport: requests received so far
    appended,         \* transport: session id -> the messages its own turns appended to its history
    toolCalls,        \* tools: invocation -> the wrapper call (_arun) serving it
    toolLock,         \* tools: the holder of MultiMCPManager._lock, or "free"
    invoked,          \* tools: wrapper calls started so far
    delivered,        \* transport: the payload of the agent_response message sent for the turn
    mcp_client,       \* MCP: the MCPClientWrapper of the configured server
    manager_initialized, \* MCP: MultiMCPManager._initialized
    clientCalls,      \* MCP: invocation -> the call on the client or the manager serving it
    clientOps,        \* MCP: calls started so far
    starter,          \* MCP: the task that started the latest call
    active_connections, \* sockets: WebSocketManager.active_connections
    stats,            \* sockets: WebSocketManager.stats (the active_connections counter)
    rate_limits,      \* sockets: WebSocketManager.rate_limits
    accepted,         \* sockets: the sockets whose accept() has succeeded
    sending,          \* sockets: sockets with a send_personal_message awaiting its send
    sendLoop,         \* sockets: the running send_to_user or broadcast_message call
    granted,          \* sockets: socket -> True returns of check_rate_limit in its window
    rateCall,         \* sockets: the last check_rate_limit call and what it returned
    socketOps         \* sockets: calls on the WebSocketManager started so far

\* The state of the MCP client runs.
mcpVars == <<mcp_client, manager_initialized, clientCalls, clientOps, starter>>

\* The state of the WebSocketManager runs.
socketVars == <<active_connections, stats, rate_limits, accepted, sending,
                sendLoop, granted, rateCall, socketOps>>

serviceVars == <<mcpVars, socketVars>>

vars == <<pc, messages, user_query, reasoning, current_step, iteration_count,
          tool_results, goal_achieved, result, steps, lastNode, lastResp,
          guardFired, reasoningSteps, toolSteps, modelCalls, modelRaises,
          callsAfterRaise, fatalError, toolNodeRaised, dispatched, nextId,
          initialized, graph, session_id, session_histories, checkpoint,
          previous_messages, input_messages, readFrom, hadBackup, cleared, startedCleared,
          clearsInRow, afterClear, turns, tasks, queries, appended,
          toolCalls, toolLock, invoked, delivered, serviceVars>>

\* The state of the transport runs.
transportVars == <<tasks, queries, appended, delivered>>

\* The state of the tool wrappers' runs.
toolVars == <<toolCalls, toolLock, invoked>>

\* What the graph's nodes never touch.
agentVars == <<initialized, graph, session_id, session_histories, previous_messages,
               input_messages,
               readFrom, hadBackup, cleared, startedCleared, clearsInRow,
               afterClear, turns, tasks, queries, appended,
               toolCalls, toolLock, invoked, delivered, serviceVars>>

-----------------------------------------------------------------------------
\* Bounds of the model.

\* Most tool calls one model response carries.
MaxToolCalls == 2

\* Most tool calls the model requests in one turn.
MaxCalls == 4

\* Most process_query calls of a run with several turns.
MaxTurns == 2

\* Most clear_session_memory calls in a row for one session.
MaxClears == 2

\* Most requests the transport receives in a run.
MaxQueries == 2

\* Most messages the nodes of the graph add in one turn of a transport run.
MaxGraphSteps == 1

\* Most wrapper calls started in a run of the tool wrappers.
MaxInvocations == 3

\* The session ids the callers use.
Sessions == {"s1", "s2"}

-----------------------------------------------------------------------------
\* Program constants.

\* state.get("max_iterations", 3): process_query never sets max_iterations.
max_iterations == 3

\* config["recursion_limit"]
recursion_limit == 10

\* if consecutive_failures >= 2
FailureThreshold == 2

-----------------------------------------------------------------------------
\* Tool contents. A tool's returned text is looked at only through the
\* substrings the code tests for.

ToolOk == "ok"
ErrorPayload == "{error: Error executing tool}"
ToolNodeTypeError == "Error: TypeError(...) Please fix your mistakes."

ToolNodeInvalidTool == "Error: x is not a valid tool"

\* What the scripted tools of the model return.
ToolContents == {ToolOk, ErrorPayload, ToolNodeTypeError}

\* "Error:" in str(content)
HasErrorColon(c) == c \in {ToolNodeTypeError, ToolNodeInvalidTool}

\* "TypeError" in str(content)
HasTypeError(c) == c \in {ToolNodeTypeError}

\* The tool wrappers' {"error": ...} payloads and ToolNode's error text.
IsFailureContent(c) == c \in {ErrorPayload, ToolNodeTypeError, ToolNodeInvalidTool}

\* tool_result_entry["success"]
SuccessFlag(c) == ~(HasErrorColon(c) /\ HasTypeError(c))

-----------------------------------------------------------------------------
\* Messages.

HumanMessage(c) == [type |-> "human", content |-> c, tool_calls |-> <<>>, tool_call_id |-> 0]
AIMessage(c, calls) == [type |-> "ai", content |-> c, tool_calls |-> calls, tool_call_id |-> 0]
ToolMessage(c, id) == [type |-> "tool", content |-> c, tool_calls |-> <<>>, tool_call_id |-> id]

Last(s) == s[Len(s)]

\* The text of a model response: empty when it carries tool calls.
ResponseText(n) == IF n > 0 THEN "" ELSE "answer"

\* ids nextId .. nextId+n-1
NewCalls(n) == [i \in 1..n |-> nextId + i - 1]

NoRecord == [type |-> "none"]

-----------------------------------------------------------------------------
\* Routing functions.

\* Routing to the tools whenever the goal is not achieved.
ShouldUseToolsAlways(ga, msgs) ==
    IF ga THEN "end" ELSE "tools"

\* _should_use_tools
ShouldUseTools(ga, msgs) ==
    IF ga THEN "end"
    ELSE IF Len(msgs) > 0 /\ Len(Last(msgs).tool_calls) > 0 THEN "tools"
    ELSE "end"

ShouldContinueReasoningNoCap(ic, ga) ==
    IF ga THEN "end" ELSE "continue"

ShouldContinueReasoningOffByOne(ic, ga) ==
    IF ic > max_iterations THEN "end"
    ELSE IF ga THEN "end"
    ELSE "continue"

\* _should_continue_reasoning
ShouldContinueReasoning(ic, ga) ==
    IF ic >= max_iterations THEN "end"
    ELSE IF ga THEN "end"
    ELSE "continue"

\* The compiled graph's edges: the node a route leads to.
EdgeTarget(route) ==
    CASE route = "tools" -> "tool_calling"
      [] route = "continue" -> "reasoning"
      [] OTHER -> "END"

\* The channel values a checkpoint keeps from one turn to the next; the
\* other channels are overwritten by the input of every turn.
ChannelValues(msgs, rsn, step) ==
    [messages |-> msgs, reasoning |-> rsn, current_step |-> step]

\* One super-step of the compiled graph has run and `route` was chosen:
\* the checkpointer saves the channels under the turn's thread id, and the
\* graph goes on, ends, or raises GraphRecursionError when the recursion
\* limit is used up with a node still to run.
GraphAdvance(route) ==
    /\ steps' = steps + 1
    /\ pc' = IF EdgeTarget(route) # "END" /\ steps + 1 >= recursion_limit
             THEN "raised" ELSE EdgeTarget(route)
    /\ checkpoint' = [checkpoint EXCEPT
                         ![session_id] = ChannelValues(messages', reasoning', current_step')]

-----------------------------------------------------------------------------
\* _reasoning_node

is_continuation == Len(tool_results) > 0

\* iteration_count incremented by every reasoning step.
IterationAfterReasoningAlways == iteration_count + 1

\* iteration_count after "if is_continuation: iteration_count += 1"
IterationAfterReasoning == IF is_continuation THEN iteration_count + 1 ELSE iteration_count

\* any(keyword in user_query.lower() for keyword in code_related_keywords)
CodeRelated(q) == q.code_related

\* user_query after the "[IMPORTANT: ...]" note is added to a code-related query
QueryAfterReasoning ==
    IF CodeRelated(user_query) \/ current_step = "code_execution_required"
    THEN [user_query EXCEPT !.notes = @ + 1] ELSE user_query

\* reasoning after the two special-state checks
ReasoningAfterChecks ==
    LET r1 == IF current_step = "code_execution_required"
              THEN Append(reasoning, "code examples detected") ELSE reasoning
    IN IF CodeRelated(user_query) THEN Append(r1, "code-related query detected") ELSE r1

StepAfterChecks == IF current_step = "code_execution_required" THEN "processing" ELSE current_step

GoalAfterChecks == IF CodeRelated(user_query) THEN FALSE ELSE goal_achieved

failed_attempts_of(results) == Cardinality({i \in 1..Len(results) : ~results[i].success})

RECURSIVE consecutive_failures_inverted(_)
consecutive_failures_inverted(results) ==
    IF results = <<>> THEN 0
    ELSE IF Last(results).success
         THEN 1 + consecutive_failures_inverted(SubSeq(results, 1, Len(results) - 1))
         ELSE 0

RECURSIVE consecutive_failures_of(_)
\* the count over reversed(tool_results), up to the first success
consecutive_failures_of(results) ==
    IF results = <<>> THEN 0
    ELSE IF ~Last(results).success
         THEN 1 + consecutive_failures_of(SubSeq(results, 1, Len(results) - 1))
         ELSE 0

\* if consecutive_failures >= 2
GuardApplies(results) == consecutive_failures_of(results) >= FailureThreshold

\* The numbers of tool calls a model response may carry now.
CallCounts == 0..(IF MaxCalls - (nextId - 1) < MaxToolCalls
                  THEN MaxCalls - (nextId - 1) ELSE MaxToolCalls)

\* What a model invocation does: it raises, or returns a response with n tool calls.
Raises == [raised |-> TRUE, n |-> 0, text |-> ""]
Responds(k) == [raised |-> FALSE, n |-> k, text |-> ResponseText(k)]
ModelOutcomes == {Raises} \cup {Responds(k) : k \in CallCounts}

\* What every run of the node counts.
ReasoningBookkeeping(calls, raises) ==
    /\ reasoningSteps' = reasoningSteps + 1
    /\ lastNode' = "reasoning"
    /\ modelCalls' = modelCalls + calls
    /\ modelRaises' = modelRaises + raises
    /\ callsAfterRaise' = callsAfterRaise +
           (IF modelRaises > 0 THEN calls
            ELSE IF raises > 0 /\ calls > 1 THEN calls - 1 ELSE 0)
    /\ UNCHANGED <<tool_results, result, toolSteps, toolNodeRaised, dispatched>>
    /\ UNCHANGED agentVars

\* The consecutive-failure guard: the model is asked for an explanation,
\* outside any try block.
ReasoningGuard(out) ==
    /\ GuardApplies(tool_results)
    /\ IF out.raised
       THEN /\ pc' = "raised"
            /\ fatalError' = TRUE
            /\ lastResp' = "none"
            /\ UNCHANGED <<messages, user_query, reasoning, current_step,
                           iteration_count, goal_achieved, steps, nextId, checkpoint>>
       ELSE /\ messages' = Append(messages, AIMessage("explanation", <<>>))
            /\ reasoning' = Append(ReasoningAfterChecks, "Stopped due to repeated tool failures")
            /\ goal_achieved' = TRUE
            /\ iteration_count' = IterationAfterReasoning
            /\ user_query' = QueryAfterReasoning
            /\ current_step' = StepAfterChecks
            /\ lastResp' = "no_tool_calls"
            /\ GraphAdvance(ShouldUseTools(TRUE, messages'))
            /\ UNCHANGED <<fatalError, nextId>>
    /\ guardFired' = TRUE
    /\ ReasoningBookkeeping(1, IF out.raised THEN 1 ELSE 0)

\* The model call of the main path, inside try/except.
MainPath(out, callsBefore, raisesBefore) ==
    /\ iteration_count' = IterationAfterReasoning
    /\ user_query' = QueryAfterReasoning
    /\ guardFired' = FALSE
    /\ IF out.raised
       THEN /\ messages' = Append(messages, AIMessage("I encountered an error", <<>>))
            /\ reasoning' = ReasoningAfterChecks \o
                   <<IF is_continuation THEN "Iteration: analyzing tool results"
                     ELSE "Starting analysis of query", "Reasoning error">>
            /\ current_step' = "error"
            /\ goal_achieved' = GoalAfterChecks
            /\ fatalError' = TRUE
            /\ lastResp' = "none"
            /\ UNCHANGED nextId
       ELSE /\ messages' = Append(messages, AIMessage(out.text, NewCalls(out.n)))
            /\ reasoning' = ReasoningAfterChecks \o
                   <<IF is_continuation THEN "Iteration: analyzing tool results"
                     ELSE "Starting analysis of query">> \o
                   (IF out.text = "" THEN <<>>
                    ELSE <<IF is_continuation THEN "Iteration Analysis" ELSE "Initial Analysis">>)
            /\ current_step' = IF out.n > 0 THEN "tool_execution" ELSE "completed"
            /\ goal_achieved' = IF out.n > 0 THEN GoalAfterChecks ELSE TRUE
            /\ lastResp' = IF out.n > 0 THEN "tool_calls" ELSE "no_tool_calls"
            /\ nextId' = nextId + out.n
            /\ UNCHANGED fatalError
    /\ GraphAdvance(ShouldUseTools(goal_achieved', messages'))
    /\ ReasoningBookkeeping(callsBefore + 1, raisesBefore + (IF out.raised THEN 1 ELSE 0))

\* The conversational path of iteration 0; an exception of its model call
\* is logged and the node falls through to the main path.
ReasoningConversational(conv, main) ==
    /\ ~GuardApplies(tool_results)
    /\ IterationAfterReasoning = 0
    /\ ~CodeRelated(user_query)
    /\ IF conv.raised
       THEN MainPath(main, 1, 1)
       ELSE /\ messages' = Append(messages, AIMessage(conv.text, NewCalls(conv.n)))
            /\ reasoning' = Append(ReasoningAfterChecks, "Processing query with full conversation history.")
            /\ current_step' = "response_generation"
            /\ goal_achieved' = GoalAfterChecks
            /\ iteration_count' = IterationAfterReasoning
            /\ user_query' = QueryAfterReasoning
            /\ lastResp' = IF conv.n > 0 THEN "tool_calls" ELSE "no_tool_calls"
            /\ nextId' = nextId + conv.n
            /\ guardFired' = FALSE
            /\ GraphAdvance(ShouldUseTools(goal_achieved', messages'))
            /\ ReasoningBookkeeping(1, 0)
            /\ UNCHANGED fatalError

ReasoningMain(out) ==
    /\ ~GuardApplies(tool_results)
    /\ ~(IterationAfterReasoning = 0 /\ ~CodeRelated(user_query))
    /\ MainPath(out, 0, 0)

\* One run of the node, the model's invocations behaving as one of `outcomes`.
ReasoningNodeWith(outcomes) ==
    /\ pc = "reasoning"
    /\ \/ \E out \in {Raises, Responds(0)} : ReasoningGuard(out)
       \/ \E conv \in outcomes, main \in outcomes : ReasoningConversational(conv, main)
       \/ \E out \in outcomes : ReasoningMain(out)

ReasoningNode == ReasoningNodeWith(ModelOutcomes)

-----------------------------------------------------------------------------
\* _tool_calling_node

\* The ToolMessages ToolNode returns, one per tool call of the last message.
ToolNodeMessages(calls, contents) ==
    [i \in 1..Len(calls) |-> ToolMessage(contents[i], calls[i])]

\* tool_result_entry: built from the last message of ToolNode's result.
ToolResultEntry(last_message) ==
    [iteration |-> iteration_count,
     content   |-> last_message.content,
     success   |-> SuccessFlag(last_message.content)]

ToolBookkeeping(ndispatched) ==
    /\ toolSteps' = toolSteps + 1
    /\ lastNode' = "tool_calling"
    /\ callsAfterRaise' = callsAfterRaise + (IF modelRaises > 0 THEN ndispatched ELSE 0)
    /\ UNCHANGED <<user_query, reasoning, current_step, result, lastResp, guardFired,
                   reasoningSteps, modelCalls, modelRaises, nextId>>
    /\ UNCHANGED agentVars

\* ToolNode ran every tool call of the last assistant message.
ToolCallingReturns(contents) ==
    LET calls == Last(messages).tool_calls
        out   == ToolNodeMessages(calls, contents)
    IN /\ messages' = messages \o out
       /\ tool_results' = IF Len(out) > 0
                          THEN Append(tool_results, ToolResultEntry(Last(out)))
                          ELSE tool_results
       /\ iteration_count' = iteration_count
       /\ goal_achieved' = goal_achieved
       /\ dispatched' = dispatched \o calls
       /\ ToolBookkeeping(Len(calls))
       /\ GraphAdvance(ShouldContinueReasoning(iteration_count', goal_achieved'))
       /\ UNCHANGED <<fatalError, toolNodeRaised>>

\* ToolNode raised after k of the calls were handed to their tools.
ToolCallingExcept(k) ==
    LET calls == Last(messages).tool_calls
    IN /\ messages' = Append(messages, AIMessage("Tool execution failed", <<>>))
       /\ iteration_count' = iteration_count
       /\ goal_achieved' = TRUE
       /\ fatalError' = TRUE
       /\ toolNodeRaised' = TRUE
       /\ dispatched' = dispatched \o SubSeq(calls, 1, k)
       /\ ToolBookkeeping(k)
       /\ GraphAdvance(ShouldContinueReasoning(iteration_count', goal_achieved'))
       /\ UNCHANGED tool_results

ToolCallingNode ==
    /\ pc = "tool_calling"
    /\ LET n == Len(Last(messages).tool_calls)
       IN \/ \E contents \in [1..n -> ToolContents] : ToolCallingReturns(contents)
          \/ \E k \in 0..n : ToolCallingExcept(k)

-----------------------------------------------------------------------------
\* process_query and _format_response

\* A message object as the memories hold it: add_messages gives every
\* message of a thread an id of its own, here its position in the thread.
Stored(id, m) == [id |-> id, msg |-> m]

\* The messages of a thread's checkpoint, as objects.
WithIds(msgs) == [i \in 1..Len(msgs) |-> Stored(i, msgs[i])]

Range(s) == {s[i] : i \in 1..Len(s)}

Ids(s) == {s[i].id : i \in 1..Len(s)}

\* The elements of s at the indices in `keep`, in order.
Pick(s, keep) ==
    [k \in 1..Cardinality(keep) |->
        s[CHOOSE i \in keep : Cardinality({j \in keep : j <= i}) = k]]

\* The last message of `right` with this id.
LastWithId(right, id) ==
    right[CHOOSE j \in 1..Len(right) :
            /\ right[j].id = id
            /\ \A k \in (j + 1)..Len(right) : right[k].id # id]

\* The reducer of AgentState.messages: a message of `right` whose id is
\* already in the list replaces that message in place, any other is
\* appended.
add_messages(left, right) ==
    LET replaced == [i \in 1..Len(left) |->
                        IF left[i].id \in Ids(right) THEN LastWithId(right, left[i].id)
                        ELSE left[i]]
        fresh    == {j \in 1..Len(right) :
                        /\ right[j].id \notin Ids(left)
                        /\ \A k \in 1..(j - 1) : right[k].id # right[j].id}
        firsts   == Pick(right, fresh)
    IN replaced \o [k \in 1..Len(firsts) |-> LastWithId(right, firsts[k].id)]

\* for msg in all_messages: if msg not in history: history.append(msg)
\* (the messages of a final state have ids of their own, so no two are equal)
MergeFinalState(history, all_messages) ==
    history \o SelectSeq(all_messages, LAMBDA msg : msg \notin Range(history))

\* {}; d without key k; d with key k set to v
EmptyDict == [x \in {} |-> x]
Without(d, k) == [x \in DOMAIN d \ {k} |-> d[x]]
With(d, k, v) == [x \in DOMAIN d \cup {k} |-> IF x = k THEN v ELSE d[x]]

\* What initialize() does when process_query has to call it: it raises,
\* or completes with or without a compiled graph (no LLM configured).
InitializeOutcomes == {"raises", "graph", "no_llm"}

\* What memory.aget_tuple does when it is called.
LookupOutcomes == {"returns", "raises"}

InitializeInputs == InitializeOutcomes \cup {"done"}
LookupInputs == LookupOutcomes \cup {"none"}

\* self.graph once initialize() has run with outcome init
GraphAfter(init) == IF initialized THEN graph ELSE init = "graph"

\* The memory lookup preferring the checkpoint store to the backup.
ReadsCheckpointAlways(sid, init) == GraphAfter(init)

\* elif self.memory and self.graph: the checkpoint store is read when the
\* backup has no entry for the session.
ReadsCheckpoint(sid, init) == sid \notin DOMAIN session_histories /\ GraphAfter(init)

\* The values of the turn's local bookkeeping at the start of a turn.
TurnStart ==
    /\ steps' = 0
    /\ lastNode' = "none"
    /\ lastResp' = "none"
    /\ guardFired' = FALSE
    /\ reasoningSteps' = 0
    /\ toolSteps' = 0
    /\ modelCalls' = 0
    /\ modelRaises' = 0
    /\ callsAfterRaise' = 0
    /\ fatalError' = FALSE
    /\ toolNodeRaised' = FALSE
    /\ dispatched' = <<>>
    /\ nextId' = 1

\* process_query up to graph.ainvoke: initialize() if needed, the memory
\* lookup, the append of the current message to the backup, input_data,
\* and the graph's input step (the reducers applied to the thread's
\* checkpoint, the result checkpointed).
ProcessQuery(code_related, sid, init, lookup) ==
    /\ pc = "idle"
    /\ turns < MaxTurns
    /\ turns' = turns + 1
    /\ session_id' = sid
    /\ init \in (IF initialized THEN {"done"} ELSE InitializeOutcomes)
    /\ TurnStart
    /\ UNCHANGED <<transportVars, toolVars, serviceVars>>
    /\ IF init = "raises"
       THEN /\ pc' = "propagated"
            /\ UNCHANGED <<messages, user_query, reasoning, current_step, iteration_count,
                           tool_results, goal_achieved, result, initialized, graph,
                           session_histories, checkpoint, previous_messages, input_messages, readFrom,
                           hadBackup, cleared, startedCleared, clearsInRow,
                           afterClear>>
            /\ lookup = "none"
       ELSE /\ initialized' = TRUE
            /\ graph' = GraphAfter(init)
            /\ lookup \in (IF ReadsCheckpoint(sid, init) THEN LookupOutcomes ELSE {"none"})
            /\ LET had      == sid \in DOMAIN session_histories
                   left     == IF sid \in DOMAIN checkpoint
                               THEN WithIds(checkpoint[sid].messages) ELSE <<>>
                   found    == ReadsCheckpoint(sid, init) /\ lookup = "returns"
                                  /\ sid \in DOMAIN checkpoint
                   previous == IF ~ReadsCheckpoint(sid, init) /\ had THEN session_histories[sid]
                               ELSE IF found THEN left
                               ELSE <<>>
                   \* previous_messages is the list object stored in the backup
                   aliased  == (~ReadsCheckpoint(sid, init) /\ had) \/ found
                   current_message == Stored(Len(left) + 1, HumanMessage("query"))
                   history  == Append(IF aliased \/ ~had THEN previous
                                      ELSE session_histories[sid], current_message)
                   input    == IF aliased THEN Append(history, current_message)
                               ELSE Append(previous, current_message)
                   merged   == add_messages(left, input)
               IN /\ session_histories' = With(session_histories, sid, history)
                  /\ previous_messages' = previous
                  /\ input_messages' = input
                  /\ readFrom' = IF ReadsCheckpoint(sid, init) THEN "checkpoint"
                                 ELSE IF had THEN "backup" ELSE "none"
                  /\ hadBackup' = had
                  /\ IF GraphAfter(init)
                     THEN /\ pc' = "reasoning"
                          /\ messages' = [i \in 1..Len(merged) |-> merged[i].msg]
                          /\ reasoning' = IF sid \in DOMAIN checkpoint
                                          THEN checkpoint[sid].reasoning ELSE <<>>
                          /\ current_step' = IF sid \in DOMAIN checkpoint
                                             THEN checkpoint[sid].current_step ELSE ""
                          /\ checkpoint' = With(checkpoint, sid,
                                 ChannelValues(messages', reasoning', current_step'))
                          /\ result' = NoRecord
                     ELSE /\ pc' = "returned"
                          /\ messages' = <<>>
                          /\ reasoning' = <<>>
                          /\ current_step' = ""
                          /\ result' = [type          |-> "error",
                                        ui_resource   |-> "none",
                                        response      |-> "LangGraph is not available",
                                        reasoning     |-> <<"No LLM or graph configured">>,
                                        current_step  |-> "",
                                        goal_achieved |-> FALSE]
                          /\ UNCHANGED checkpoint
            /\ user_query' = [code_related |-> code_related, notes |-> 0]
            /\ iteration_count' = 0
            /\ tool_results' = <<>>
            /\ goal_achieved' = FALSE
            /\ startedCleared' = (sid \in cleared)
            /\ cleared' = cleared \ {sid}
            /\ clearsInRow' = [s \in Sessions |-> 0]
            /\ UNCHANGED afterClear

\* msg.content.startswith("User Query:")
IsEcho(text) == text \in {"User Query: echo"}

\* _contains_code_blocks
ContainsCodeBlocks(text) == text \in {"answer with a fenced python block"}

RECURSIVE LastAnswer(_)
\* the last AIMessage with text, no "User Query:" prefix and no tool calls
LastAnswer(msgs) ==
    IF msgs = <<>> THEN "No response generated."
    ELSE LET msg == Last(msgs)
         IN IF /\ msg.type = "ai"
               /\ msg.content # ""
               /\ ~IsEcho(msg.content)
               /\ Len(msg.tool_calls) = 0
            THEN msg.content
            ELSE LastAnswer(SubSeq(msgs, 1, Len(msgs) - 1))

\* The text of a query tool (rows) and of a visualization tool.
RowsContent == "[{row}, ...]"
UIResourceContent == "{type: ui_resource, ui_resource: {...}}"

\* json.loads(content) is a non-empty list
IsRowsContent(c) == c \in {"[{row}, ...]"}

\* json.loads(content) is a dict of type ui_resource carrying a ui_resource
IsUIResourceContent(c) == c \in {"{type: ui_resource, ui_resource: {...}}"}

\* the scan of tool_results for a UI resource
HasUIResource(results) ==
    \E i \in 1..Len(results) :
        IsRowsContent(results[i].content) \/ IsUIResourceContent(results[i].content)

\* response_data["type"]; visualization_config and query_results are never set
ResponseType(results) == IF HasUIResource(results) THEN "ui_resource" ELSE "text"

\* ui_resource_from_tools: the scan stops at the first ToolResult that is a
\* list of rows (made into a table) or a tool's ui_resource.
UIResourceFromTools(results) ==
    LET hits == {i \in 1..Len(results) :
                    IsRowsContent(results[i].content) \/ IsUIResourceContent(results[i].content)}
    IN IF hits = {} THEN "none"
       ELSE LET first == CHOOSE i \in hits : \A j \in hits : i <= j
            IN IF IsRowsContent(results[first].content) THEN "table" ELSE "visualization"

\* process_query after graph.ainvoke returned: the merge of the final
\* state's messages into the backup, then _format_response.
FormatResponse ==
    /\ pc = "END"
    /\ pc' = "returned"
    /\ session_histories' = [session_histories EXCEPT
           ![session_id] = MergeFinalState(@, WithIds(messages))]
    /\ LET ai_response == LastAnswer(messages)
           violation   == ContainsCodeBlocks(ai_response)
       IN result' = [type          |-> ResponseType(tool_results),
                     ui_resource   |-> UIResourceFromTools(tool_results),
                     response      |-> ai_response,
                     reasoning     |-> reasoning,
                     current_step  |-> IF violation THEN "code_execution_required"
                                       ELSE current_step,
                     goal_achieved |-> IF violation THEN FALSE ELSE goal_achieved]
    /\ UNCHANGED <<messages, user_query, reasoning, current_step, iteration_count,
                   tool_results, goal_achieved, steps, lastNode, lastResp, guardFired,
                   reasoningSteps, toolSteps, modelCalls, modelRaises, callsAfterRaise,
                   fatalError, toolNodeRaised, dispatched, nextId>>
    /\ UNCHANGED <<initialized, graph, session_id, checkpoint, previous_messages,
                   input_messages,
                   readFrom, hadBackup, cleared, startedCleared, clearsInRow,
                   afterClear, turns>>
    /\ UNCHANGED <<transportVars, toolVars, serviceVars>>

\* process_query's except branch: an exception left graph.ainvoke.
ProcessQueryExcept ==
    /\ pc = "raised"
    /\ pc' = "returned"
    /\ result' = [type          |-> "error",
                  ui_resource   |-> "none",
                  response      |-> "I encountered an error processing your query",
                  reasoning     |-> <<"Error">>,
                  current_step  |-> "",
                  goal_achieved |-> FALSE]
    /\ UNCHANGED <<messages, user_query, reasoning, current_step, iteration_count,
                   tool_results, goal_achieved, steps, lastNode, lastResp, guardFired,
                   reasoningSteps, toolSteps, modelCalls, modelRaises, callsAfterRaise,
                   fatalError, toolNodeRaised, dispatched, nextId>>
    /\ UNCHANGED <<agentVars, checkpoint>>

\* result.get("error"): the record has an "error" entry.
HasErrorEntry(record) == "error" \in DOMAIN record

\* response_message["payload"] of handle_analytics_query
ResponsePayload(record) ==
    IF HasErrorEntry(record)
    THEN [type |-> "error", response |-> record.response, ui_resource |-> "none",
          reasoning |-> <<"error">>]
    ELSE [type |-> "data", response |-> record.response,
          ui_resource |-> record.ui_resource, reasoning |-> record.reasoning]

\* handle_analytics_query after process_query returned: the agent_response
\* message is built from the record and sent to the client.
SendResponse ==
    /\ pc = "returned"
    /\ delivered = NoRecord
    /\ delivered' = ResponsePayload(result)
    /\ UNCHANGED <<pc, messages, user_query, reasoning, current_step, iteration_count,
                   tool_results, goal_achieved, result, steps, lastNode, lastResp,
                   guardFired, reasoningSteps, toolSteps, modelCalls, modelRaises,
                   callsAfterRaise, fatalError, toolNodeRaised, dispatched, nextId,
                   initialized, graph, session_id, session_histories, checkpoint,
                   previous_messages, input_messages, readFrom, hadBackup, cleared, startedCleared,
                   clearsInRow, afterClear, turns, tasks, queries, appended>>
    /\ UNCHANGED <<toolVars, serviceVars>>

\* process_query has returned its record, or its exception, to the caller:
\* the locals of the turn are gone, the two memories stay.
Return ==
    /\ pc \in {"returned", "propagated"}
    /\ pc' = "idle"
    /\ messages' = <<>>
    /\ user_query' = [code_related |-> FALSE, notes |-> 0]
    /\ reasoning' = <<>>
    /\ current_step' = ""
    /\ iteration_count' = 0
    /\ tool_results' = <<>>
    /\ goal_achieved' = FALSE
    /\ result' = NoRecord
    /\ TurnStart
    /\ UNCHANGED <<agentVars, checkpoint>>

\* What memory.adelete(config) does: the call is inside try/except, and
\* the checkpointer either drops the thread or the call raises.
AdeleteOutcomes == {"deletes", "raises"}

\* clear_session_memory, called between turns.
ClearSessionMemory(sid, adelete) ==
    /\ pc = "idle"
    /\ clearsInRow[sid] < MaxClears
    /\ session_histories' = Without(session_histories, sid)
    /\ checkpoint' = IF adelete = "deletes" THEN Without(checkpoint, sid) ELSE checkpoint
    /\ cleared' = cleared \cup {sid}
    /\ clearsInRow' = [s \in Sessions |-> IF s = sid THEN clearsInRow[s] + 1 ELSE 0]
    /\ afterClear' = IF clearsInRow[sid] = 0
                     THEN [session_histories |-> session_histories', checkpoint |-> checkpoint']
                     ELSE afterClear
    /\ UNCHANGED <<pc, messages, user_query, reasoning, current_step, iteration_count,
                   tool_results, goal_achieved, result, steps, lastNode, lastResp,
                   guardFired, reasoningSteps, toolSteps, modelCalls, modelRaises,
                   callsAfterRaise, fatalError, toolNodeRaised, dispatched, nextId,
                   initialized, graph, session_id, previous_messages, input_messages, readFrom,
                   hadBackup, startedCleared, turns>>
    /\ UNCHANGED <<transportVars, toolVars, serviceVars>>

-----------------------------------------------------------------------------
\* The transport of backend/main.py: WebSocket connections, each handling
\* its QUERY messages one after the other, and test-query requests, all
\* calling process_query of the one agent. Their tasks interleave at the
\* awaits: the send of the status update, memory.aget_tuple, and the awaited
\* calls of the graph's nodes. The agent was initialized by the lifespan
\* handler. Every message has an id of its own: the client, the number of
\* the client's request, and the message's number in the turn.

Connections == {"ws1", "ws2"}
Requests == {"http1"}
Clients == Connections \cup Requests

\* The payload has no userId key.
NoUserId == "(absent)"

\* What the clients send: payload.session_id, payload.userId, and the
\* user_id parameter of /api/test-query ("test_user" when left out).
PayloadSessionIds == {"s1", "s2"}
PayloadUserIds == {NoUserId, "u1"}
TestUserIds == {"test_user", "u1"}

\* query_data.get("userId", "anonymous")
UserIdOf(userId) == IF userId = NoUserId THEN "anonymous" ELSE userId

\* session_id = user_id or "default"
SessionFor(user_id) == IF user_id = "" THEN "default" ELSE user_id

\* The session ids process_query is called with.
SessionKeys == {SessionFor(UserIdOf(u)) : u \in PayloadUserIds}
                   \cup {SessionFor(u) : u \in TestUserIds}

IdleTask == [pc |-> "idle", session |-> "anonymous", requested |-> "none",
             request |-> 0, channel |-> <<>>, steps |-> 0]

\* The id of the j-th message made in the turn of client c's current request.
MessageId(c, j) == <<c, tasks[c].request, j>>

\* A history of every session written under one key.
HistoryKeyShared(sid) == "anonymous"

\* self.session_histories[session_id]
HistoryKey(sid) == sid

HistoryOf(sid) ==
    IF sid \in DOMAIN session_histories THEN session_histories[sid] ELSE <<>>

TransportUnchanged ==
    UNCHANGED <<pc, messages, user_query, reasoning, current_step, iteration_count,
                tool_results, goal_achieved, result, steps, lastNode, lastResp,
                guardFired, reasoningSteps, toolSteps, modelCalls, modelRaises,
                callsAfterRaise, fatalError, toolNodeRaised, dispatched, nextId,
                initialized, graph, session_id, previous_messages, input_messages, readFrom,
                hadBackup, cleared, startedCleared, clearsInRow, afterClear, turns,
                toolCalls, toolLock, invoked, delivered, serviceVars>>

\* websocket_endpoint received a QUERY message and awaits
\* handle_analytics_query, which is at its first await.
ReceiveQuery(c, sid, userId) ==
    /\ tasks[c].pc = "idle"
    /\ queries < MaxQueries
    /\ queries' = queries + 1
    /\ tasks' = [tasks EXCEPT ![c] = [pc |-> "handling",
                                      session |-> SessionFor(UserIdOf(userId)),
                                      requested |-> sid,
                                      request |-> tasks[c].request + 1,
                                      channel |-> <<>>, steps |-> 0]]
    /\ UNCHANGED <<session_histories, checkpoint, appended>>
    /\ TransportUnchanged

\* A POST /api/test-query arrived.
TestQuery(c, user_id) ==
    /\ tasks[c].pc = "idle"
    /\ queries < MaxQueries
    /\ queries' = queries + 1
    /\ tasks' = [tasks EXCEPT ![c] = [pc |-> "handling",
                                      session |-> SessionFor(user_id),
                                      requested |-> "none",
                                      request |-> tasks[c].request + 1,
                                      channel |-> <<>>, steps |-> 0]]
    /\ UNCHANGED <<session_histories, checkpoint, appended>>
    /\ TransportUnchanged

\* process_query from the append of the current message to the first
\* await inside graph.ainvoke: `previous` is what the lookup found, `base`
\* the list the backup holds for the session now.
StartGraph(c, previous, aliased, base) ==
    LET sid     == tasks[c].session
        current == Stored(MessageId(c, 0), HumanMessage("query"))
        history == Append(base, current)
        input   == IF aliased THEN Append(history, current)
                   ELSE Append(previous, current)
        left    == IF sid \in DOMAIN checkpoint THEN checkpoint[sid].messages ELSE <<>>
        merged  == add_messages(left, input)
    IN /\ session_histories' = With(session_histories, HistoryKey(sid), history)
       /\ appended' = [appended EXCEPT ![sid] = IF aliased THEN history
                                                ELSE Append(@, current)]
       /\ checkpoint' = With(checkpoint, sid, ChannelValues(merged, <<>>, ""))
       /\ tasks' = [tasks EXCEPT ![c].pc = "graph", ![c].channel = merged]
       /\ UNCHANGED queries
       /\ TransportUnchanged

\* process_query begins: with a backup entry the turn goes on to the
\* graph, without one it awaits memory.aget_tuple.
BeginTurn(c) ==
    /\ tasks[c].pc = "handling"
    /\ LET sid == tasks[c].session
       IN IF HistoryKey(sid) \in DOMAIN session_histories
          THEN StartGraph(c, session_histories[HistoryKey(sid)], TRUE,
                          session_histories[HistoryKey(sid)])
          ELSE /\ tasks' = [tasks EXCEPT ![c].pc = "lookup"]
               /\ UNCHANGED <<session_histories, checkpoint, appended, queries>>
               /\ TransportUnchanged

\* memory.aget_tuple returned or raised.
LookupDone(c, lookup) ==
    /\ tasks[c].pc = "lookup"
    /\ LET sid == tasks[c].session
       IN IF lookup = "returns" /\ sid \in DOMAIN checkpoint
          THEN StartGraph(c, checkpoint[sid].messages, TRUE, checkpoint[sid].messages)
          ELSE StartGraph(c, <<>>, FALSE, HistoryOf(HistoryKey(sid)))

\* An awaited node of the graph has run and added its message; the
\* checkpointer saved the task's channels under its thread id.
NodeStep(c) ==
    /\ tasks[c].pc = "graph"
    /\ tasks[c].steps < MaxGraphSteps
    /\ LET sid     == tasks[c].session
           channel == Append(tasks[c].channel, Stored(MessageId(c, tasks[c].steps + 1), AIMessage("answer", <<>>)))
       IN /\ tasks' = [tasks EXCEPT ![c].channel = channel, ![c].steps = @ + 1]
          /\ checkpoint' = With(checkpoint, sid, ChannelValues(channel, <<>>, ""))
    /\ UNCHANGED <<session_histories, appended, queries>>
    /\ TransportUnchanged

\* graph.ainvoke returned: the merge into the backup, the record, and the
\* handler's reply.
GraphReturns(c) ==
    /\ tasks[c].pc = "graph"
    /\ tasks[c].steps >= 1
    /\ LET sid == tasks[c].session
           new == SelectSeq(tasks[c].channel,
                            LAMBDA msg : msg \notin Range(HistoryOf(HistoryKey(sid))))
       IN /\ session_histories' = With(session_histories, HistoryKey(sid),
                                       MergeFinalState(HistoryOf(HistoryKey(sid)),
                                                       tasks[c].channel))
          /\ appended' = [appended EXCEPT ![sid] = @ \o new]
    /\ tasks' = [tasks EXCEPT ![c].pc = "idle", ![c].channel = <<>>, ![c].steps = 0]
    /\ UNCHANGED <<checkpoint, queries>>
    /\ TransportUnchanged

\* An exception left graph.ainvoke: process_query returns its error record.
GraphRaises(c) ==
    /\ tasks[c].pc = "graph"
    /\ tasks' = [tasks EXCEPT ![c].pc = "idle", ![c].channel = <<>>, ![c].steps = 0]
    /\ UNCHANGED <<session_histories, checkpoint, appended, queries>>
    /\ TransportUnchanged

TransportNext ==
    \/ \E c \in Connections, sid \in PayloadSessionIds, userId \in PayloadUserIds :
           ReceiveQuery(c, sid, userId)
    \/ \E c \in Requests, user_id \in TestUserIds : TestQuery(c, user_id)
    \/ \E c \in Clients : BeginTurn(c)
    \/ \E c \in Clients, lookup \in LookupOutcomes : LookupDone(c, lookup)
    \/ \E c \in Clients : NodeStep(c)
    \/ \E c \in Clients : GraphReturns(c)
    \/ \E c \in Clients : GraphRaises(c)

-----------------------------------------------------------------------------
\* The tool wrappers of backend/langraph_multi_mcp_tools.py over
\* MultiMCPManager.call_tool of backend/mcp_multi_client.py. ToolNode runs
\* the tool calls of one assistant message as concurrent tasks; each task
\* is one wrapper call, which interleaves with the others at its awaits.

Invocations == {"t1", "t2"}

\* The wrappers that reach an MCP server.
Wrappers == {"MCPTool", "DatabaseQueryTool"}

\* MultiMCPManager.call_tool returned None.
NoResult == "None"

\* What client.call_tool does when the server answers: the session call
\* returns a response, or raises.
BackendOutcomes == {"returns", "raises"}

IdleCall == [wrapper |-> "MCPTool", provided |-> TRUE, hangs |-> FALSE,
             pc |-> "idle", result |-> "pending", content |-> "pending"]

\* A wrapper returning whatever call_tool returned.
WrapperContentUnchecked(returned) == returned

\* if result and "content" in result: return result["content"]
\* else: return json.dumps({"error": ...})
WrapperContent(returned) == IF returned # NoResult THEN returned ELSE ErrorPayload

AgentAndTransportUnchanged ==
    UNCHANGED <<pc, messages, user_query, reasoning, current_step, iteration_count,
                tool_results, goal_achieved, result, steps, lastNode, lastResp,
                guardFired, reasoningSteps, toolSteps, modelCalls, modelRaises,
                callsAfterRaise, fatalError, toolNodeRaised, dispatched, nextId,
                initialized, graph, session_id, session_histories, checkpoint,
                previous_messages, input_messages, readFrom, hadBackup, cleared, startedCleared,
                clearsInRow, afterClear, turns, tasks, queries, appended, delivered>>

ToolsUnchanged == AgentAndTransportUnchanged /\ UNCHANGED serviceVars

\* async with self._lock ends, by return or by cancellation.
Released(t) == IF toolLock = t THEN "free" ELSE toolLock

\* ToolNode calls a wrapper's _arun: `provided` says whether a connected
\* server lists the tool, `hangs` whether the server never answers the call.
\* MCPTool goes to mcp_manager.call_tool under wait_for, DatabaseQueryTool
\* first awaits mcp_manager.list_all_tools().
StartCall(t, wrapper, provided, hangs) ==
    /\ toolCalls[t].pc \in {"idle", "done"}
    /\ invoked < MaxInvocations
    /\ invoked' = invoked + 1
    /\ toolCalls' = [toolCalls EXCEPT ![t] =
           [wrapper |-> wrapper, provided |-> provided, hangs |-> hangs,
            pc |-> IF wrapper = "DatabaseQueryTool" THEN "listing" ELSE "acquiring",
            result |-> "pending", content |-> "pending"]]
    /\ UNCHANGED toolLock
    /\ ToolsUnchanged

\* DatabaseQueryTool._arun looked for a PostgreSQL tool in list_all_tools().
ListTools(t) ==
    /\ toolCalls[t].pc = "listing"
    /\ toolCalls' = IF toolCalls[t].provided
                    THEN [toolCalls EXCEPT ![t].pc = "acquiring"]
                    ELSE [toolCalls EXCEPT ![t].pc = "done", ![t].content = ErrorPayload]
    /\ UNCHANGED <<toolLock, invoked>>
    /\ ToolsUnchanged

\* MultiMCPManager.call_tool entered "async with self._lock".
Acquire(t) ==
    /\ toolCalls[t].pc = "acquiring"
    /\ toolLock = "free"
    /\ toolLock' = t
    /\ toolCalls' = [toolCalls EXCEPT ![t].pc = "lookup"]
    /\ UNCHANGED invoked
    /\ ToolsUnchanged

\* get_tool_by_name returned: without tool_info call_tool returns None and
\* the wrapper returns; with it call_tool awaits client.call_tool.
GetToolByName(t) ==
    /\ toolCalls[t].pc = "lookup"
    /\ IF toolCalls[t].provided
       THEN /\ toolCalls' = [toolCalls EXCEPT ![t].pc = "backend"]
            /\ UNCHANGED toolLock
       ELSE /\ toolCalls' = [toolCalls EXCEPT ![t].pc = "done",
                                              ![t].result = NoResult,
                                              ![t].content = WrapperContent(NoResult)]
            /\ toolLock' = Released(t)
    /\ UNCHANGED invoked
    /\ ToolsUnchanged

\* client.call_tool returned: the response's text, or None after an
\* exception of the session call, which it catches.
ClientCallTool(t, outcome) ==
    /\ toolCalls[t].pc = "backend"
    /\ ~toolCalls[t].hangs
    /\ LET returned == IF outcome = "returns" THEN ToolOk ELSE NoResult
       IN toolCalls' = [toolCalls EXCEPT ![t].pc = "done",
                                        ![t].result = returned,
                                        ![t].content = WrapperContent(returned)]
    /\ toolLock' = Released(t)
    /\ UNCHANGED invoked
    /\ ToolsUnchanged

\* asyncio.wait_for(..., timeout=30.0) of MCPTool._arun expired: the call
\* is cancelled wherever it waits, and the wrapper's except branch returns
\* the error payload.
WaitForExpires(t) ==
    /\ toolCalls[t].wrapper = "MCPTool"
    /\ toolCalls[t].pc \in {"acquiring", "lookup", "backend"}
    /\ toolCalls' = [toolCalls EXCEPT ![t].pc = "done",
                                     ![t].result = "cancelled",
                                     ![t].content = ErrorPayload]
    /\ toolLock' = Released(t)
    /\ UNCHANGED invoked
    /\ ToolsUnchanged

\* The steps of one wrapper call.
ToolStep(t) ==
    \/ ListTools(t)
    \/ Acquire(t)
    \/ GetToolByName(t)
    \/ \E outcome \in BackendOutcomes : ClientCallTool(t, outcome)
    \/ WaitForExpires(t)

ToolsNext ==
    \/ \E t \in Invocations, wrapper \in Wrappers, provided \in BOOLEAN, hangs \in BOOLEAN :
           StartCall(t, wrapper, provided, hangs)
    \/ \E t \in Invocations : ToolStep(t)

-----------------------------------------------------------------------------
\* The MCP client and its manager (mcp_multi_client.py), with the one
\* server of load_default_configs.

max_reconnect_attempts == 3

\* Calls on the client and the manager in one run.
MaxClientOps == 4

ClientStatuses == {"disconnected", "connecting", "reconnecting", "connected", "error"}

\* MCPClientWrapper.__init__; tools_cache says that _tools_cache is not empty.
NewClient == [status |-> "disconnected", reconnect_attempts |-> 0, tools_cache |-> FALSE]

\* The calls a task makes, as the steps they run one after the other:
\* the methods of the client, of the manager, and DatabaseQueryTool._arun.
ClientOpNames == {"connect", "disconnect", "ensure_connected", "list_tools", "call_tool",
                  "initialize", "list_all_tools", "manager_call_tool", "database_query"}

ListAllTools == <<"init", "ensure", "list_body">>

ManagerCallTool ==
    <<"lock">> \o ListAllTools \o <<"find_or_unlock", "ensure", "call_body", "unlock">>

Program(op) ==
    CASE op = "connect" -> <<"connect">>
      [] op = "disconnect" -> <<"disconnect">>
      [] op = "ensure_connected" -> <<"ensure">>
      [] op = "list_tools" -> <<"ensure", "list_body">>
      [] op = "call_tool" -> <<"ensure", "call_body">>
      [] op = "initialize" -> <<"init">>
      [] op = "list_all_tools" -> ListAllTools
      [] op = "manager_call_tool" -> ManagerCallTool
      [] op = "database_query" ->
             <<"init">> \o ListAllTools \o <<"find_or_return">> \o ManagerCallTool

\* ensured and connect_ok are what the last ensure_connected and the last
\* connect of the call returned.
IdleClientCall == [op |-> "none", todo |-> <<>>, pc |-> "idle", found |-> FALSE,
                   ensured |-> "none", connect_ok |-> "none"]

AttemptsExhaustedNever(c) == FALSE

\* if self.reconnect_attempts >= self.config.max_reconnect_attempts
AttemptsExhausted(c) == c.reconnect_attempts >= max_reconnect_attempts

\* What a step of a task sees and changes.
ClientState(t, call) ==
    [client |-> mcp_client, initialized |-> manager_initialized, lock |-> toolLock,
     t |-> t, call |-> call]

SetClientState(t, st) ==
    /\ mcp_client' = st.client
    /\ manager_initialized' = st.initialized
    /\ toolLock' = st.lock
    /\ clientCalls' = [clientCalls EXCEPT ![t] = st.call]

Drop(todo, n) == SubSeq(todo, n + 1, Len(todo))

\* ensure_connected returned False: list_tools returns [] and call_tool
\* None without reaching their bodies.
EnsureRefused(st) ==
    [st EXCEPT !.call.ensured = "False",
               !.call.found = FALSE,
               !.call.todo = Drop(st.call.todo, 2)]

\* connect() up to its first await: the status is "connecting".
ConnectBegins(st) ==
    [st EXCEPT !.client.status = "connecting", !.call.pc = "connecting"]

\* The task runs its steps up to the next await.
RECURSIVE RunToAwait(_)
RunToAwait(st) ==
    LET todo == st.call.todo
        c == st.client
    IN IF todo = <<>> THEN [st EXCEPT !.call.pc = "idle"]
       ELSE CASE Head(todo) = "connect" -> ConnectBegins(st)
              [] Head(todo) = "disconnect" ->
                     RunToAwait([st EXCEPT !.client.status = "disconnected",
                                           !.client.reconnect_attempts = 0,
                                           !.call.todo = Tail(todo)])
              [] Head(todo) = "ensure" ->
                     IF c.status = "connected"
                     THEN RunToAwait([st EXCEPT !.call.ensured = "True",
                                                !.call.todo = Tail(todo)])
                     ELSE IF c.status \in {"connecting", "reconnecting"} \/ AttemptsExhausted(c)
                     THEN RunToAwait(EnsureRefused(st))
                     ELSE IF c.reconnect_attempts + 1 > 1
                     THEN [st EXCEPT !.client.status = "reconnecting",
                                     !.client.reconnect_attempts = c.reconnect_attempts + 1,
                                     !.call.pc = "sleeping"]
                     ELSE ConnectBegins([st EXCEPT !.client.reconnect_attempts =
                                                       c.reconnect_attempts + 1])
              [] Head(todo) = "list_body" ->
                     IF c.tools_cache
                     THEN RunToAwait([st EXCEPT !.call.found = TRUE,
                                                !.call.todo = Tail(todo)])
                     ELSE [st EXCEPT !.call.pc = "listing"]
              [] Head(todo) = "call_body" -> [st EXCEPT !.call.pc = "calling"]
              [] Head(todo) = "init" ->
                     IF st.initialized
                     THEN RunToAwait([st EXCEPT !.call.todo = Tail(todo)])
                     ELSE ConnectBegins(st)
              [] Head(todo) = "find_or_return" ->
                     RunToAwait([st EXCEPT !.call.todo =
                                     IF st.call.found THEN Tail(todo) ELSE <<>>])
              [] Head(todo) = "find_or_unlock" ->
                     RunToAwait([st EXCEPT !.call.todo =
                                     IF st.call.found THEN Tail(todo) ELSE <<"unlock">>])
              [] Head(todo) = "lock" ->
                     IF st.lock = "free"
                     THEN RunToAwait([st EXCEPT !.lock = st.t, !.call.todo = Tail(todo)])
                     ELSE [st EXCEPT !.call.pc = "acquiring"]
              [] Head(todo) = "unlock" ->
                     RunToAwait([st EXCEPT !.lock = "free", !.call.todo = Tail(todo)])

ClientsUnchanged ==
    AgentAndTransportUnchanged /\ UNCHANGED <<toolCalls, invoked, socketVars>>

\* A task calls a method of the client or of the manager.
StartClientOp(t, op) ==
    /\ clientOps < MaxClientOps
    /\ clientCalls[t].pc = "idle"
    /\ clientOps' = clientOps + 1
    /\ starter' = t
    /\ SetClientState(t, RunToAwait(ClientState(t,
           [IdleClientCall EXCEPT !.op = op, !.todo = Program(op), !.pc = "ready"])))
    /\ ClientsUnchanged

\* asyncio.sleep(reconnect_delay_seconds) of ensure_connected is over:
\* `return await self.connect()`.
ReconnectDelayOver(t) ==
    /\ clientCalls[t].pc = "sleeping"
    /\ SetClientState(t, ConnectBegins(ClientState(t, clientCalls[t])))
    /\ UNCHANGED <<clientOps, starter>>
    /\ ClientsUnchanged

\* connect() is over: the server answered with its tools, or the except
\* branch ran. The caller goes on: ensure_connected returns what connect
\* returned, initialize sets _initialized to whether a client connected.
ConnectReturns(t, connects, tools) ==
    /\ clientCalls[t].pc = "connecting"
    /\ LET call == clientCalls[t]
           c == IF connects
                THEN [status |-> "connected", reconnect_attempts |-> 0, tools_cache |-> tools]
                ELSE [mcp_client EXCEPT !.status = "error"]
           st == [ClientState(t, [call EXCEPT !.pc = "ready",
                                              !.connect_ok = IF connects THEN "True" ELSE "False"])
                     EXCEPT !.client = c]
       IN SetClientState(t, RunToAwait(
              CASE Head(call.todo) = "connect" -> [st EXCEPT !.call.todo = Tail(call.todo)]
                [] Head(call.todo) = "init" -> [st EXCEPT !.initialized = connects,
                                                          !.call.todo = Tail(call.todo)]
                [] Head(call.todo) = "ensure" ->
                       IF connects
                       THEN [st EXCEPT !.call.ensured = "True", !.call.todo = Tail(call.todo)]
                       ELSE EnsureRefused(st)))
    /\ UNCHANGED <<clientOps, starter>>
    /\ ClientsUnchanged

\* The body of list_tools, reached with an empty cache, is over: the tools
\* of the server are cached, or the except branch sets the status to "error".
ListReturns(t, listed, tools) ==
    /\ clientCalls[t].pc = "listing"
    /\ LET call == clientCalls[t]
           st == ClientState(t, [call EXCEPT !.pc = "ready", !.todo = Tail(call.todo),
                                             !.found = listed /\ tools])
       IN SetClientState(t, RunToAwait(
              IF listed
              THEN [st EXCEPT !.client.tools_cache = tools]
              ELSE [st EXCEPT !.client.status = "error"]))
    /\ UNCHANGED <<clientOps, starter>>
    /\ ClientsUnchanged

\* The body of call_tool is over: with a result, or the except branch sets
\* the status to "error".
CallReturns(t, called) ==
    /\ clientCalls[t].pc = "calling"
    /\ LET call == clientCalls[t]
           st == ClientState(t, [call EXCEPT !.pc = "ready", !.todo = Tail(call.todo)])
       IN SetClientState(t, RunToAwait(
              IF called THEN st ELSE [st EXCEPT !.client.status = "error"]))
    /\ UNCHANGED <<clientOps, starter>>
    /\ ClientsUnchanged

\* `async with self._lock` of MultiMCPManager.call_tool gets the lock.
LockAcquired(t) ==
    /\ clientCalls[t].pc = "acquiring"
    /\ toolLock = "free"
    /\ SetClientState(t, RunToAwait(ClientState(t, [clientCalls[t] EXCEPT !.pc = "ready"])))
    /\ UNCHANGED <<clientOps, starter>>
    /\ ClientsUnchanged

ClientsInit ==
    /\ mcp_client = NewClient
    /\ manager_initialized = FALSE
    /\ clientCalls = [t \in Invocations |-> IdleClientCall]
    /\ clientOps = 0
    /\ starter = "none"

\* What a call does once it has started.
ClientCallStep(t) ==
    \/ ReconnectDelayOver(t)
    \/ \E connects \in BOOLEAN, tools \in BOOLEAN : ConnectReturns(t, connects, tools)
    \/ \E listed \in BOOLEAN, tools \in BOOLEAN : ListReturns(t, listed, tools)
    \/ \E called \in BOOLEAN : CallReturns(t, called)
    \/ LockAcquired(t)

ClientsNext ==
    \/ \E t \in Invocations, op \in ClientOpNames : StartClientOp(t, op)
    \/ \E t \in Invocations : ClientCallStep(t)

\* What application startup and the turns call: the manager's methods and
\* the database tool.
ManagerOpNames == {"initialize", "list_all_tools", "manager_call_tool", "database_query"}

ManagerNext ==
    \/ \E t \in Invocations, op \in ManagerOpNames : StartClientOp(t, op)
    \/ \E t \in Invocations : ClientCallStep(t)

-----------------------------------------------------------------------------
\* The WebSocketManager (websocket_manager.py).

WebSockets == {"w1", "w2", "w3"}
UserIds == {"u1", "u2"}
NoUser == "None"
NoSocket == "None"

\* Calls on the manager in one run.
MaxSocketOps == 5
\* The largest max_requests argument of check_rate_limit.
MaxLimit == 2

\* connection_info of connect: the socket has no user yet.
ConnectionInfo == [user_id |-> NoUser]

Manager == [active_connections |-> active_connections,
            rate_limits |-> rate_limits,
            stats |-> stats]

SetManager(m) ==
    /\ active_connections' = m.active_connections
    /\ rate_limits' = m.rate_limits
    /\ stats' = m.stats

ActiveAfterDisconnectAlways(m, websocket) == m.stats.active_connections - 1

\* stats["active_connections"] -= 1, inside `if websocket in self.active_connections`.
ActiveAfterDisconnect(m, websocket) ==
    IF websocket \in DOMAIN m.active_connections
    THEN m.stats.active_connections - 1
    ELSE m.stats.active_connections

\* disconnect(websocket): the entries of the socket are deleted and the
\* counter decremented, if the socket is in active_connections.
disconnect(m, websocket) ==
    [active_connections |-> Without(m.active_connections, websocket),
     rate_limits |-> IF websocket \in DOMAIN m.active_connections
                     THEN Without(m.rate_limits, websocket)
                     ELSE m.rate_limits,
     stats |-> [active_connections |-> ActiveAfterDisconnect(m, websocket)]]

\* `for websocket in ...: self.disconnect(websocket)`.
RECURSIVE DisconnectEach(_, _)
DisconnectEach(m, sockets) ==
    IF sockets = {} THEN m
    ELSE LET websocket == CHOOSE w \in sockets : TRUE
         IN DisconnectEach(disconnect(m, websocket), sockets \ {websocket})

SocketsUnchanged == AgentAndTransportUnchanged /\ UNCHANGED <<toolVars, mcpVars>>

\* The count of granted requests of a socket ends with its connection.
GrantedKept ==
    granted' = [w \in WebSockets |->
                   IF w \in DOMAIN active_connections' THEN granted[w] ELSE 0]

SocketOpStarts ==
    /\ socketOps < MaxSocketOps
    /\ socketOps' = socketOps + 1

\* connect(websocket): once accept() has returned, the entry is stored and
\* both counters are incremented without an await in between. accept()
\* raises on a socket that was accepted before, and connect re-raises.
Connect(websocket, accepts) ==
    /\ SocketOpStarts
    /\ websocket \notin accepted
    /\ IF accepts
       THEN /\ accepted' = accepted \cup {websocket}
            /\ active_connections' = With(active_connections, websocket, ConnectionInfo)
            /\ stats' = [active_connections |-> stats.active_connections + 1]
       ELSE UNCHANGED <<accepted, active_connections, stats>>
    /\ UNCHANGED <<rate_limits, sending, sendLoop, granted, rateCall>>
    /\ SocketsUnchanged

\* disconnect(websocket), of any socket, connected or not.
Disconnect(websocket) ==
    /\ SocketOpStarts
    /\ SetManager(disconnect(Manager, websocket))
    /\ GrantedKept
    /\ UNCHANGED <<accepted, sending, sendLoop, rateCall>>
    /\ SocketsUnchanged

\* set_user_id(websocket, user_id).
SetUserId(websocket, user_id) ==
    /\ SocketOpStarts
    /\ websocket \in DOMAIN active_connections
    /\ active_connections' = [active_connections EXCEPT ![websocket].user_id = user_id]
    /\ UNCHANGED <<stats, rate_limits, accepted, sending, sendLoop, granted, rateCall>>
    /\ SocketsUnchanged

\* send_personal_message(message, websocket) reaches `await websocket.send_text`.
StartPersonalMessage(websocket) ==
    /\ SocketOpStarts
    /\ websocket \in DOMAIN active_connections
    /\ websocket \notin sending
    /\ sending' = sending \cup {websocket}
    /\ UNCHANGED <<active_connections, stats, rate_limits, accepted, sendLoop,
                   granted, rateCall>>
    /\ SocketsUnchanged

\* The send of send_personal_message returns or raises. A socket removed in
\* the meantime makes the update of its entry raise KeyError; both
\* exceptions end in self.disconnect(websocket).
PersonalMessageDone(websocket, sent) ==
    /\ websocket \in sending
    /\ sending' = sending \ {websocket}
    /\ IF sent /\ websocket \in DOMAIN active_connections
       THEN UNCHANGED <<active_connections, stats, rate_limits>>
       ELSE SetManager(disconnect(Manager, websocket))
    /\ GrantedKept
    /\ UNCHANGED <<accepted, sendLoop, rateCall, socketOps>>
    /\ SocketsUnchanged

NoLoop == [op |-> "none", user_id |-> NoUser, exclude |-> NoSocket, size |-> 0,
           visited |-> {}, awaiting |-> NoSocket, attempted |-> {}, failed |-> {},
           targets |-> {}, outcome |-> "none"]

\* The entries a loop still sends to: send_to_user skips the sockets of
\* other users, broadcast_message the excluded socket.
Candidates(lp, m) ==
    {w \in DOMAIN m.active_connections \ lp.visited :
        IF lp.op = "send_to_user"
        THEN m.active_connections[w].user_id = lp.user_id
        ELSE w # lp.exclude}

\* The loop asks the dict iterator for the next entry. The iterator raises
\* RuntimeError when the size of the dict differs from the size it had when
\* the loop began. After the last entry send_to_user returns, and
\* broadcast_message disconnects the sockets it collected and returns.
LoopContinues(lp, m) ==
    IF Cardinality(DOMAIN m.active_connections) # lp.size
    THEN /\ sendLoop' = [lp EXCEPT !.outcome = "raised", !.awaiting = NoSocket]
         /\ SetManager(m)
    ELSE IF Candidates(lp, m) = {}
    THEN /\ sendLoop' = [lp EXCEPT !.outcome = "returned", !.awaiting = NoSocket]
         /\ SetManager(IF lp.op = "broadcast" THEN DisconnectEach(m, lp.failed) ELSE m)
    ELSE /\ \E w \in Candidates(lp, m) :
               sendLoop' = [lp EXCEPT !.awaiting = w,
                                      !.visited = lp.visited \cup {w},
                                      !.attempted = lp.attempted \cup {w}]
         /\ SetManager(m)

\* send_to_user(user_id, message) begins its loop over active_connections.items().
StartSendToUser(user_id) ==
    /\ SocketOpStarts
    /\ sendLoop.outcome # "running"
    /\ LoopContinues([NoLoop EXCEPT !.op = "send_to_user",
                                    !.user_id = user_id,
                                    !.size = Cardinality(DOMAIN active_connections),
                                    !.targets = {w \in DOMAIN active_connections :
                                                    active_connections[w].user_id = user_id},
                                    !.outcome = "running"],
                     Manager)
    /\ GrantedKept
    /\ UNCHANGED <<accepted, sending, rateCall>>
    /\ SocketsUnchanged

\* broadcast_message(message, exclude) begins its loop, unless there is no
\* connection at all.
StartBroadcast(exclude) ==
    /\ SocketOpStarts
    /\ sendLoop.outcome # "running"
    /\ active_connections # EmptyDict
    /\ LoopContinues([NoLoop EXCEPT !.op = "broadcast",
                                    !.exclude = exclude,
                                    !.size = Cardinality(DOMAIN active_connections),
                                    !.targets = DOMAIN active_connections \ {exclude},
                                    !.outcome = "running"],
                     Manager)
    /\ GrantedKept
    /\ UNCHANGED <<accepted, sending, rateCall>>
    /\ SocketsUnchanged

\* The send a loop awaits returns or raises. send_to_user disconnects the
\* socket at once; broadcast_message collects it (also when the socket was
\* removed in the meantime, the update of its entry raising KeyError).
LoopSendDone(sent) ==
    /\ sendLoop.outcome = "running"
    /\ sendLoop.awaiting # NoSocket
    /\ IF sendLoop.op = "send_to_user"
       THEN IF sent
            THEN LoopContinues(sendLoop, Manager)
            ELSE LoopContinues([sendLoop EXCEPT !.failed = sendLoop.failed \cup {sendLoop.awaiting}],
                               disconnect(Manager, sendLoop.awaiting))
       ELSE IF sent /\ sendLoop.awaiting \in DOMAIN active_connections
            THEN LoopContinues(sendLoop, Manager)
            ELSE LoopContinues([sendLoop EXCEPT !.failed = sendLoop.failed \cup {sendLoop.awaiting}],
                               Manager)
    /\ GrantedKept
    /\ UNCHANGED <<accepted, sending, rateCall, socketOps>>
    /\ SocketsUnchanged

\* cleanup_stale_connections: the entries whose last activity is older
\* than the timeout are collected and then disconnected.
CleanupStaleConnections(stale_connections) ==
    /\ SocketOpStarts
    /\ stale_connections \subseteq DOMAIN active_connections
    /\ SetManager(DisconnectEach(Manager, stale_connections))
    /\ GrantedKept
    /\ UNCHANGED <<accepted, sending, sendLoop, rateCall>>
    /\ SocketsUnchanged

NoRateCall == [websocket |-> NoSocket, max_requests |-> 1, before |-> 0, returned |-> FALSE]

\* The requests counted for the socket when the limit is checked: none after
\* a reset of the window.
RequestsInWindow(websocket, expired) ==
    IF expired THEN 0 ELSE rate_limits[websocket].requests

\* check_rate_limit(websocket, max_requests, window_seconds) of a connected
\* socket; expired says that the window of the socket's entry is over.
CheckRateLimit(websocket, max_requests, expired) ==
    /\ SocketOpStarts
    /\ websocket \in DOMAIN active_connections
    /\ expired => websocket \in DOMAIN rate_limits
    /\ IF websocket \notin DOMAIN rate_limits
       THEN /\ rateCall' = [websocket |-> websocket, max_requests |-> max_requests,
                            before |-> granted[websocket], returned |-> TRUE]
            /\ granted' = [granted EXCEPT ![websocket] = granted[websocket] + 1]
            /\ UNCHANGED rate_limits
       ELSE IF RequestsInWindow(websocket, expired) >= max_requests
       THEN /\ rateCall' = [websocket |-> websocket, max_requests |-> max_requests,
                            before |-> IF expired THEN 0 ELSE granted[websocket],
                            returned |-> FALSE]
            /\ granted' = [granted EXCEPT ![websocket] = IF expired THEN 0 ELSE granted[websocket]]
            /\ rate_limits' = [rate_limits EXCEPT ![websocket].requests =
                                  RequestsInWindow(websocket, expired)]
       ELSE /\ rateCall' = [websocket |-> websocket, max_requests |-> max_requests,
                            before |-> IF expired THEN 0 ELSE granted[websocket],
                            returned |-> TRUE]
            /\ granted' = [granted EXCEPT ![websocket] =
                              (IF expired THEN 0 ELSE granted[websocket]) + 1]
            /\ rate_limits' = [rate_limits EXCEPT ![websocket].requests =
                                  RequestsInWindow(websocket, expired) + 1]
    /\ UNCHANGED <<active_connections, stats, accepted, sending, sendLoop>>
    /\ SocketsUnchanged

SocketsInit ==
    /\ active_connections = EmptyDict
    /\ stats = [active_connections |-> 0]
    /\ rate_limits = EmptyDict
    /\ accepted = {}
    /\ sending = {}
    /\ sendLoop = NoLoop
    /\ granted = [w \in WebSockets |-> 0]
    /\ rateCall = NoRateCall
    /\ socketOps = 0

SocketsNext ==
    \/ \E websocket \in WebSockets, accepts \in BOOLEAN : Connect(websocket, accepts)
    \/ \E websocket \in WebSockets : Disconnect(websocket)
    \/ \E websocket \in WebSockets, user_id \in UserIds : SetUserId(websocket, user_id)
    \/ \E websocket \in WebSockets : StartPersonalMessage(websocket)
    \/ \E websocket \in WebSockets, sent \in BOOLEAN : PersonalMessageDone(websocket, sent)
    \/ \E user_id \in UserIds : StartSendToUser(user_id)
    \/ \E exclude \in WebSockets \cup {NoSocket} : StartBroadcast(exclude)
    \/ \E sent \in BOOLEAN : LoopSendDone(sent)
    \/ \E stale_connections \in SUBSET WebSockets : CleanupStaleConnections(stale_connections)
    \/ \E websocket \in WebSockets, max_requests \in 1..MaxLimit, expired \in BOOLEAN :
           CheckRateLimit(websocket, max_requests, expired)

-----------------------------------------------------------------------------

Init ==
    /\ pc = "idle"
    /\ messages = <<>>
    /\ user_query = [code_related |-> FALSE, notes |-> 0]
    /\ reasoning = <<>>
    /\ current_step = ""
    /\ iteration_count = 0
    /\ tool_results = <<>>
    /\ goal_achieved = FALSE
    /\ result = NoRecord
    /\ steps = 0
    /\ lastNode = "none"
    /\ lastResp = "none"
    /\ guardFired = FALSE
    /\ reasoningSteps = 0
    /\ toolSteps = 0
    /\ modelCalls = 0
    /\ modelRaises = 0
    /\ callsAfterRaise = 0
    /\ fatalError = FALSE
    /\ toolNodeRaised = FALSE
    /\ dispatched = <<>>
    /\ nextId = 1
    /\ initialized = FALSE
    /\ graph = FALSE
    /\ session_id = "s1"
    /\ session_histories = EmptyDict
    /\ checkpoint = EmptyDict
    /\ previous_messages = <<>>
    /\ input_messages = <<>>
    /\ readFrom = "none"
    /\ hadBackup = FALSE
    /\ cleared = {}
    /\ startedCleared = FALSE
    /\ clearsInRow = [s \in Sessions |-> 0]
    /\ afterClear = [session_histories |-> EmptyDict, checkpoint |-> EmptyDict]
    /\ turns = 0
    /\ tasks = [c \in Clients |-> IdleTask]
    /\ queries = 0
    /\ appended = [s \in SessionKeys |-> <<>>]
    /\ toolCalls = [t \in Invocations |-> IdleCall]
    /\ toolLock = "free"
    /\ invoked = 0
    /\ delivered = NoRecord
    /\ ClientsInit
    /\ SocketsInit

\* One turn of one session.
Next ==
    \/ \E code_related \in BOOLEAN, init \in InitializeInputs, lookup \in LookupInputs :
           ProcessQuery(code_related, "s1", init, lookup)
    \/ ReasoningNode
    \/ ToolCallingNode
    \/ FormatResponse
    \/ ProcessQueryExcept

Spec == Init /\ [][Next]_vars

\* Each awaited model call and tool call returns or raises, and the event
\* loop then runs the next step of the turn.
LiveSpec == Spec /\ WF_vars(Next)

\* The tools of the runs with several turns succeed.
SessionToolContents == {ToolOk}

ToolContentsWithin(msgs, contents) ==
    \A i \in 1..Len(msgs) : msgs[i].type = "tool" => msgs[i].content \in contents

\* Turns of the sessions one after the other, with clear_session_memory
\* between turns. The model calls return, and the model asks for tools in
\* at most one response of a turn, so the consecutive-failure guard never
\* applies and no exception leaves the graph.
SessionsNext ==
    \/ \E sid \in Sessions, init \in InitializeInputs, lookup \in LookupInputs :
           ProcessQuery(FALSE, sid, init, lookup)
    \/ ReasoningNode /\ modelRaises' = 0 /\ (toolSteps > 0 => nextId' = nextId)
    \/ ToolCallingNode /\ ToolContentsWithin(messages', SessionToolContents)
    \/ FormatResponse
    \/ Return
    \/ \E sid \in Sessions, adelete \in AdeleteOutcomes : ClearSessionMemory(sid, adelete)

SessionsSpec == Init /\ [][SessionsNext]_vars

\* A session's turns one after the other: the first is answered without
\* tools, the later ones are any turns whose model calls return and whose
\* tools succeed.
FollowUpNext ==
    \/ \E init \in InitializeInputs, lookup \in LookupInputs :
           ProcessQuery(FALSE, "s1", init, lookup)
    \/ ReasoningNode /\ modelRaises' = 0 /\ (turns = 1 => nextId' = nextId)
    \/ ToolCallingNode /\ ~toolNodeRaised'
                       /\ ToolContentsWithin(messages', SessionToolContents)
    \/ FormatResponse
    \/ Return

FollowUpSpec == Init /\ [][FollowUpNext]_vars

ToolsSpec == Init /\ [][ToolsNext]_vars

\* The event loop runs every task that can go on, and a timer that is set
\* expires.
ToolsLiveSpec == ToolsSpec /\ \A t \in Invocations : WF_vars(ToolStep(t))

\* The agent as the lifespan handler of main.py leaves it.
TransportInit ==
    /\ pc = "idle"
    /\ messages = <<>>
    /\ user_query = [code_related |-> FALSE, notes |-> 0]
    /\ reasoning = <<>>
    /\ current_step = ""
    /\ iteration_count = 0
    /\ tool_results = <<>>
    /\ goal_achieved = FALSE
    /\ result = NoRecord
    /\ steps = 0
    /\ lastNode = "none"
    /\ lastResp = "none"
    /\ guardFired = FALSE
    /\ reasoningSteps = 0
    /\ toolSteps = 0
    /\ modelCalls = 0
    /\ modelRaises = 0
    /\ callsAfterRaise = 0
    /\ fatalError = FALSE
    /\ toolNodeRaised = FALSE
    /\ dispatched = <<>>
    /\ nextId = 1
    /\ initialized = TRUE
    /\ graph = TRUE
    /\ session_id = "s1"
    /\ session_histories = EmptyDict
    /\ checkpoint = EmptyDict
    /\ previous_messages = <<>>
    /\ input_messages = <<>>
    /\ readFrom = "none"
    /\ hadBackup = FALSE
    /\ cleared = {}
    /\ startedCleared = FALSE
    /\ clearsInRow = [s \in Sessions |-> 0]
    /\ afterClear = [session_histories |-> EmptyDict, checkpoint |-> EmptyDict]
    /\ turns = 0
    /\ tasks = [c \in Clients |-> IdleTask]
    /\ queries = 0
    /\ appended = [s \in SessionKeys |-> <<>>]
    /\ toolCalls = [t \in Invocations |-> IdleCall]
    /\ toolLock = "free"
    /\ invoked = 0
    /\ delivered = NoRecord
    /\ ClientsInit
    /\ SocketsInit

ClientsSpec == Init /\ [][ClientsNext]_vars

ManagerSpec == Init /\ [][ManagerNext]_vars

SocketsSpec == Init /\ [][SocketsNext]_vars

TransportSpec == TransportInit /\ [][TransportNext]_vars

\* The JSON text CodeExecutionTool returns after running code.
CodeExecContent == "{success: true, output: ...}"

\* What the tools of the formatter runs return.
FormatContents == {ToolOk, ErrorPayload, RowsContent, UIResourceContent, CodeExecContent}

\* Texts of the model's responses without tool calls: a plain answer, an
\* answer with a fenced python block, a text starting with "User Query:",
\* and no text at all.
CodeBlockAnswer == "answer with a fenced python block"
EchoText == "User Query: echo"
AnswerTexts == {"answer", CodeBlockAnswer, EchoText, ""}

\* A model response without tool calls.
Answers(text) == [raised |-> FALSE, n |-> 0, text |-> text]

\* The model's invocations in the formatter runs return.
FormatterOutcomes ==
    {Answers(text) : text \in AnswerTexts} \cup {Responds(k) : k \in CallCounts \ {0}}

\* A tool step whose tools return FormatContents.
FormatterToolStep ==
    /\ pc = "tool_calling"
    /\ \E contents \in [1..Len(Last(messages).tool_calls) -> FormatContents] :
           ToolCallingReturns(contents)

\* One turn whose model calls return and whose tools return rows,
\* visualization payloads, plain text and error payloads, then
\* _format_response and the message handle_analytics_query sends.
FormatterNext ==
    \/ \E code_related \in BOOLEAN, init \in InitializeInputs, lookup \in LookupInputs :
           ProcessQuery(code_related, "s1", init, lookup)
    \/ ReasoningNodeWith(FormatterOutcomes) /\ modelRaises' = 0
    \/ FormatterToolStep
    \/ FormatResponse
    \/ SendResponse

FormatterSpec == Init /\ [][FormatterNext]_vars

-----------------------------------------------------------------------------
\* Properties of the agent loop.

\* C1: within a turn iteration_count never decreases, and in every state
\* of the turn it is at most max_iterations.
C1_IterationBounded ==
    /\ [](iteration_count <= max_iterations)
    /\ [][pc # "idle" => iteration_count' >= iteration_count]_vars

\* The cap is reached: a tool dispatch ran with iteration_count = max_iterations.
C1_Witness ==
    /\ pc = "END"
    /\ lastNode = "tool_calling"
    /\ iteration_count = max_iterations

\* C2: when every model call and tool call returns, the started graph reaches END,
\* after at most max_iterations+1 reasoning steps and max_iterations+1
\* tool-dispatch steps.
C2_TurnTerminates ==
    /\ [](reasoningSteps <= max_iterations + 1 /\ toolSteps <= max_iterations + 1)
    /\ (pc = "reasoning") ~> (pc = "END" \/ (pc = "raised" /\ modelRaises > 0))

\* The model asked for tools in every response of the turn.
C2_Witness ==
    /\ pc = "END"
    /\ modelRaises = 0
    /\ reasoningSteps = max_iterations + 1
    /\ toolSteps = max_iterations + 1

CapReached == iteration_count >= max_iterations

\* C3: at END exactly one of goal_achieved, iteration cap reached, fatal
\* error holds.
C3_ExactlyOneAtEnd ==
    pc = "END" =>
        \/ goal_achieved /\ ~CapReached /\ ~fatalError
        \/ ~goal_achieved /\ CapReached /\ ~fatalError
        \/ ~goal_achieved /\ ~CapReached /\ fatalError

\* C4: after a reasoning step that obtained a model response, goal_achieved
\* is true iff that response carries no tool calls.
C4_GoalIffNoToolCalls ==
    (lastNode = "reasoning" /\ lastResp # "none") =>
        (goal_achieved <=> lastResp = "no_tool_calls")

LastTwoFailed(results) ==
    /\ Len(results) >= 2
    /\ ~results[Len(results)].success
    /\ ~results[Len(results) - 1].success

\* C5: when the last two ToolResults of a turn both failed, the turn ends
\* with the synthesized explanation and goal_achieved = true, whatever the
\* iteration count.
C5_GuardEndsTurn ==
    (pc = "END" /\ LastTwoFailed(tool_results)) =>
        /\ goal_achieved
        /\ Last(messages) = AIMessage("explanation", <<>>)

AllToolsFailed ==
    \A i \in 1..Len(messages) :
        messages[i].type = "tool" => IsFailureContent(messages[i].content)

\* C6: with tools that always fail and no other failure, a turn with two
\* or more tool dispatches ends with goal_achieved = true and a closing
\* assistant message, within max_iterations+1 reasoning steps.
C6_AlwaysFailingTools ==
    (pc = "END" /\ toolSteps >= 2 /\ AllToolsFailed /\ ~toolNodeRaised /\ modelRaises = 0) =>
        /\ goal_achieved
        /\ Last(messages).type = "ai"
        /\ Len(Last(messages).tool_calls) = 0
        /\ reasoningSteps <= max_iterations + 1

\* C7: a reasoning step that runs with a successful ToolResult last does
\* not take the forced-termination branch.
C7_GuardNeedsConsecutive ==
    (lastNode = "reasoning" /\ Len(tool_results) > 0 /\ Last(tool_results).success)
        => ~guardFired

\* A failure followed by a success, and the next reasoning step has run.
C7_Witness ==
    /\ lastNode = "reasoning"
    /\ Len(tool_results) >= 2
    /\ ~tool_results[Len(tool_results) - 1].success
    /\ Last(tool_results).success
    /\ ~guardFired
    /\ lastResp # "none"

\* C8: at the end of a turn whose tool node never raised, the dispatched
\* tool calls and the recorded ToolResults correspond one to one.
C8_OneResultPerCall ==
    (pc = "END" /\ ~toolNodeRaised) =>
        /\ Len(tool_results) = Len(dispatched)
        /\ \A i, j \in 1..Len(dispatched) : dispatched[i] = dispatched[j] => i = j

\* C9: once a model invocation has raised, the error message is the last
\* message, the turn is at END and nothing was invoked after the raise.
C9_ModelErrorEndsTurn ==
    modelRaises > 0 =>
        /\ pc \in {"END", "returned"}
        /\ Last(messages) = AIMessage("I encountered an error", <<>>)
        /\ callsAfterRaise = 0

ErrorMessages ==
    {i \in 1..Len(messages) : messages[i] = AIMessage("I encountered an error", <<>>)}

\* C10: a turn in which a model invocation failed returns a record of
\* type error, with a single error assistant message.
C10_ErrorRecord ==
    (pc = "returned" /\ modelRaises > 0) =>
        /\ result.type = "error"
        /\ Cardinality(ErrorMessages) = 1

\* The first response the model gave in the turn carries no tool calls.
FirstResponseWithoutToolCalls ==
    /\ Len(messages) >= 2
    /\ messages[2] = AIMessage("answer", <<>>)

\* C25: when the query has no trigger phrase and the first model response
\* carries no tool calls, the turn is one reasoning step that leads to END,
\* with no tool dispatch and iteration_count = 0.
C25_ConversationalTurn ==
    (~CodeRelated(user_query) /\ FirstResponseWithoutToolCalls) =>
        /\ pc \in {"END", "returned"}
        /\ reasoningSteps = 1
        /\ toolSteps = 0
        /\ dispatched = <<>>
        /\ iteration_count = 0
        /\ Len(messages) = 2

\* The turn of scenario B is at END.
C25_Witness ==
    /\ pc = "END"
    /\ ~CodeRelated(user_query)
    /\ FirstResponseWithoutToolCalls
    /\ reasoningSteps = 1
    /\ current_step = "response_generation"

\* C26: the success flag of every recorded ToolResult is false when the
\* tool's content carries an error marker (the {"error": ...} payload of
\* the tool wrappers, ToolNode's error text) and true otherwise.
C26_SuccessFlagFromErrorMarker ==
    \A i \in 1..Len(tool_results) :
        tool_results[i].success <=> ~IsFailureContent(tool_results[i].content)

\* The ToolMessages of the turn, in the order ToolNode appended them.
ToolMessagesOfTurn == SelectSeq(messages, LAMBDA m : m.type = "tool")

\* C29: the tool calls of the turn were handed to the tools in the order
\* the model produced them, and tool_results holds their results, one per
\* call, in that order.
C29_ResultsInCallOrder ==
    ~toolNodeRaised =>
        /\ dispatched = [i \in 1..Len(ToolMessagesOfTurn) |-> ToolMessagesOfTurn[i].tool_call_id]
        /\ [i \in 1..Len(tool_results) |-> tool_results[i].content]
               = [i \in 1..Len(ToolMessagesOfTurn) |-> ToolMessagesOfTurn[i].content]

\* C30: a tool-dispatch step leads to END when iteration_count has
\* reached max_iterations or goal_achieved is true, and back to reasoning
\* otherwise; the reasoning step that completes after a tool dispatch
\* raises iteration_count by one, and nothing else changes it.
C30_IterationPerLoopBack ==
    [][/\ (pc = "tool_calling" /\ pc' # pc) =>
              pc' = (IF iteration_count' >= max_iterations \/ goal_achieved'
                     THEN "END" ELSE "reasoning")
       /\ (pc = "reasoning" /\ lastNode = "tool_calling" /\ pc' # "raised") =>
              iteration_count' = iteration_count + 1
       /\ iteration_count' # iteration_count =>
              /\ pc = "reasoning"
              /\ lastNode = "tool_calling"
              /\ iteration_count' = iteration_count + 1]_vars

\* The loop went back to reasoning max_iterations times, and the tool
\* dispatch that followed led to END.
C30_Witness ==
    /\ pc = "END"
    /\ lastNode = "tool_calling"
    /\ ~goal_achieved
    /\ iteration_count = max_iterations
    /\ toolSteps = max_iterations + 1

-----------------------------------------------------------------------------
\* Properties of process_query and of the conversation memories.

\* C11: process_query never raises to its caller; every failure inside it
\* ends in a returned record.
C11_NeverRaises == pc # "propagated"

\* The tool step that ran last had a failed dispatch: ToolNode raised, or
\* the tool message it produced last carries a failure.
DispatchFailed ==
    /\ lastNode = "tool_calling"
    /\ \/ toolNodeRaised
       \/ Last(messages).type = "tool" /\ IsFailureContent(Last(messages).content)

\* C12: a failed tool dispatch is recorded as a ToolResult with
\* success = false, and the loop goes on to the next reasoning step unless
\* the iteration cap is reached.
C12_ToolFailureRecorded ==
    DispatchFailed =>
        /\ Len(tool_results) > 0
        /\ Last(tool_results).iteration = iteration_count
        /\ ~Last(tool_results).success
        /\ pc = "reasoning" \/ CapReached

\* C13: when a turn has returned, the session's stored history is the
\* thread's messages, each once and in the order they were appended.
C13_HistoryIsAppendLog ==
    (pc = "returned" /\ graph) =>
        /\ session_id \in DOMAIN session_histories
        /\ session_histories[session_id] = WithIds(messages)

\* C14: the first turn of a session after clear_session_memory starts with
\* no previous messages, from either memory.
C14_ClearLeavesNoHistory ==
    (pc = "reasoning" /\ steps = 0 /\ startedCleared) =>
        /\ previous_messages = <<>>
        /\ messages = <<HumanMessage("query")>>

\* C15: after two clear_session_memory calls in a row for a session the
\* memories are as the first call left them, and neither holds a history
\* of the session.
C15_ClearIdempotent ==
    \A s \in Sessions :
        clearsInRow[s] >= 2 =>
            /\ session_histories = afterClear.session_histories
            /\ checkpoint = afterClear.checkpoint
            /\ s \notin DOMAIN session_histories
            /\ s \notin DOMAIN checkpoint

InTurn == pc \in {"reasoning", "tool_calling", "END", "raised", "returned"}

IsPrefix(s, t) == Len(s) <= Len(t) /\ SubSeq(t, 1, Len(s)) = s

\* C16: the lookup of a turn uses the backup whenever it had an entry for
\* the session, reads the checkpoint store only when it had none, and what
\* it found there is in the backup while the turn runs.
C16_BackupAuthoritative ==
    InTurn =>
        /\ hadBackup => readFrom = "backup"
        /\ readFrom = "checkpoint" => ~hadBackup
        /\ IsPrefix(previous_messages, session_histories[session_id])
        /\ (readFrom = "checkpoint" /\ graph /\ pc # "returned") =>
               IsPrefix(previous_messages, WithIds(messages))

\* A turn began with no backup entry and found the session's earlier
\* messages in the checkpoint store.
C16_Witness ==
    /\ pc = "reasoning"
    /\ readFrom = "checkpoint"
    /\ ~hadBackup
    /\ Len(previous_messages) >= 2
    /\ IsPrefix(previous_messages, session_histories[session_id])

\* graph.ainvoke has applied the input of the turn and no node has run.
TurnStarted == pc = "reasoning" /\ steps = 0

\* C33: the message list the turn hands to the graph is what the memory
\* lookup found followed by the current user message, which is in the
\* list exactly once.
C33_CurrentMessageOnce ==
    TurnStarted =>
        /\ Len(input_messages) = Len(previous_messages) + 1
        /\ IsPrefix(previous_messages, input_messages)
        /\ Last(input_messages).msg = HumanMessage("query")
        /\ Last(input_messages) \notin Range(previous_messages)

\* C31: every turn starts with iteration_count 0, no ToolResults,
\* goal_achieved false, an empty reasoning trace and no phase tag; only
\* the messages carry over from the session's earlier turns.
C31_TurnStateDoesNotLeak ==
    TurnStarted =>
        /\ iteration_count = 0
        /\ tool_results = <<>>
        /\ ~goal_achieved
        /\ reasoning = <<>>
        /\ current_step = ""

-----------------------------------------------------------------------------
\* Properties of the transport.

StepOf(c) == tasks'[c] # tasks[c]

\* C17: every session's stored history is what the turns of that session
\* wrote to it, in the order they wrote it, and a step of a turn leaves the
\* history of every other session as it was.
C17_NoCrossSession ==
    /\ [](\A s \in SessionKeys : HistoryOf(s) = appended[s])
    /\ [][\A c \in Clients : StepOf(c) =>
             \A s \in SessionKeys \ {tasks'[c].session} : HistoryOf(s)' = HistoryOf(s)]_vars

\* Two turns of different sessions are inside their graphs at once, and a
\* third session already has a history.
C17_Witness ==
    \E c1, c2 \in Clients :
        /\ tasks[c1].session # tasks[c2].session
        /\ tasks[c1].pc = "graph" /\ tasks[c1].steps >= 1
        /\ tasks[c2].pc = "graph" /\ tasks[c2].steps >= 1
        /\ Len(HistoryOf(tasks[c1].session)) >= 1
        /\ Len(HistoryOf(tasks[c2].session)) >= 1

\* process_query has been called for the client's request and has not returned.
InFlight(c) == tasks[c].pc \in {"lookup", "graph"}

\* C18: no two turns of one session are in flight at the same time.
C18_OneTurnPerSession ==
    \A c1, c2 \in Clients :
        (c1 # c2 /\ InFlight(c1) /\ InFlight(c2)) => tasks[c1].session # tasks[c2].session

\* C19: the turn of a QUERY message runs under payload.session_id, and
\* turns of messages with different session_id use different sessions.
C19_SessionIdFromPayload ==
    /\ \A c \in Connections : InFlight(c) => tasks[c].session = tasks[c].requested
    /\ \A c1, c2 \in Connections :
          (InFlight(c1) /\ InFlight(c2) /\ tasks[c1].requested # tasks[c2].requested)
              => tasks[c1].session # tasks[c2].session

-----------------------------------------------------------------------------
\* Properties of _format_response.

HasVisualization(results) ==
    \E i \in 1..Len(results) : IsUIResourceContent(results[i].content)

\* C20: when a ToolResult of the turn is a visualization payload, the
\* record carries that payload as its body, with the type the formatter
\* gives to a visualization, wherever the result stands among the
\* ToolResults.
C20_VisualizationPreferred ==
    (pc = "returned" /\ HasVisualization(tool_results)) =>
        /\ result.ui_resource = "visualization"
        /\ result.type \in {"visualization", "ui_resource"}

\* The turn of scenario A has returned: the model asked for a query tool,
\* which returned rows, then for a chart tool, which returned its
\* visualization payload, then answered in plain text.
ScenarioA ==
    /\ pc = "returned"
    /\ Len(messages) = 6
    /\ messages[3] = ToolMessage(RowsContent, 1)
    /\ messages[5] = ToolMessage(UIResourceContent, 2)
    /\ messages[6] = AIMessage("answer", <<>>)

\* C21: the turn of scenario A ends with exactly two ToolResults,
\* goal_achieved = true, and a record whose body is the chart, with the
\* type the formatter gives to a visualization.
C21_ScenarioA ==
    ScenarioA =>
        /\ Len(tool_results) = 2
        /\ result.goal_achieved
        /\ result.ui_resource = "visualization"
        /\ result.type \in {"visualization", "ui_resource"}

\* _format_response has made the record of the turn.
Formatted == pc = "returned" /\ lastNode # "none"

\* A code-execution tool ran in the turn.
CodeExecuted ==
    \E i \in 1..Len(messages) :
        messages[i].type = "tool" /\ messages[i].content = CodeExecContent

\* C22: the record's goal_achieved is cleared when the answer text has a
\* fenced code block and no code-execution tool ran in the turn, and is
\* the loop's goal_achieved in every other case.
C22_ClearsGoalOnUnexecutedCode ==
    Formatted =>
        result.goal_achieved =
            (IF ContainsCodeBlocks(result.response) /\ ~CodeExecuted
             THEN FALSE ELSE goal_achieved)

\* The assistant messages without tool-call requests whose text is not a
\* bookkeeping echo.
AnswerCandidates ==
    {i \in 1..Len(messages) :
        /\ messages[i].type = "ai"
        /\ Len(messages[i].tool_calls) = 0
        /\ ~IsEcho(messages[i].content)}

\* C23: the record's response text is the text of the last assistant
\* message without tool-call requests that is not a bookkeeping echo, and
\* the fallback text only when there is no such message.
C23_LastAnswerSelected ==
    Formatted =>
        result.response =
            (IF AnswerCandidates = {} THEN "No response generated."
             ELSE messages[CHOOSE i \in AnswerCandidates :
                              \A j \in AnswerCandidates : j <= i].content)

\* The types an output record may have.
RecordTypes == {"text", "data", "visualization", "error"}

\* C24: every record process_query returns has one of the four types.
C24_RecordTypeInSet == pc = "returned" => result.type \in RecordTypes

\* The messages the nodes added in this turn: those after the last user
\* message of the thread.
AddedInTurn ==
    {i \in 1..Len(messages) :
        \A j \in i..Len(messages) : messages[j].type # "human"}

\* C34: when no reasoning step of the turn produced an assistant message
\* with text and without tool calls, the record's response is the
\* fallback text, not an answer of an earlier turn.
C34_AnswerFromThisTurn ==
    (Formatted /\ \A i \in AddedInTurn :
                    ~(/\ messages[i].type = "ai"
                      /\ messages[i].content # ""
                      /\ Len(messages[i].tool_calls) = 0))
        => result.response = "No response generated."

\* C32: the message sent for a finished turn carries the type of the
\* record process_query returned.
C32_DeliveredTypeUnchanged ==
    delivered # NoRecord => delivered.type = result.type

-----------------------------------------------------------------------------
\* Properties of the tool wrappers.

\* C27: a wrapper called for a tool that no connected server provides
\* returns, and what it returns is an error payload; when
\* MultiMCPManager.call_tool was reached and returned, it returned None.
C27_UnknownToolIsErrorPayload ==
    \A t \in Invocations :
        (~toolCalls[t].provided /\ toolCalls[t].pc = "done") =>
            /\ toolCalls[t].content = ErrorPayload
            /\ toolCalls[t].result \in {NoResult, "cancelled", "pending"}
            /\ toolCalls[t].wrapper = "DatabaseQueryTool" <=> toolCalls[t].result = "pending"

\* The generic wrapper was called for an unknown tool, call_tool returned
\* None and the wrapper has returned.
C27_Witness ==
    \E t \in Invocations :
        /\ toolCalls[t].wrapper = "MCPTool"
        /\ ~toolCalls[t].provided
        /\ toolCalls[t].pc = "done"
        /\ toolCalls[t].result = NoResult
        /\ toolCalls[t].content = ErrorPayload

\* C28: every wrapper call that has started returns, and a call whose
\* server never answers returns an error payload.
C28_ToolCallsTimeOut ==
    /\ \A t \in Invocations :
           (toolCalls[t].pc \notin {"idle", "done"}) ~> (toolCalls[t].pc = "done")
    /\ \A t \in Invocations :
           (toolCalls[t].pc = "backend" /\ toolCalls[t].hangs) ~>
               (toolCalls[t].pc = "done" /\ toolCalls[t].content = ErrorPayload)

-----------------------------------------------------------------------------
\* Properties of the MCP client.

\* The step starts call op of task t.
ClientOpStarted(t, op) ==
    /\ clientOps' = clientOps + 1
    /\ starter' = t
    /\ clientCalls'[t].op = op

AtMaximumNotConnected ==
    /\ mcp_client.reconnect_attempts = max_reconnect_attempts
    /\ mcp_client.status # "connected"

\* At the maximum and not connected, ensure_connected returns False, leaves
\* the client as it is, and no task begins to sleep or to connect on behalf
\* of ensure_connected.
EnsureRefusesAtMaximum ==
    AtMaximumNotConnected =>
        \A t \in Invocations :
            /\ ClientOpStarted(t, "ensure_connected") =>
                   /\ clientCalls'[t].ensured = "False"
                   /\ clientCalls'[t].pc = "idle"
                   /\ mcp_client' = mcp_client
            /\ (/\ clientCalls[t].pc \notin {"sleeping", "connecting"}
                /\ clientCalls'[t].pc \in {"sleeping", "connecting"})
                   => Head(clientCalls'[t].todo) # "ensure"

\* A connect that returns True and a disconnect leave reconnect_attempts at 0.
AttemptsReset ==
    \A t \in Invocations :
        /\ (/\ clientCalls[t].pc = "connecting"
            /\ clientCalls'[t].pc # "connecting"
            /\ clientCalls'[t].connect_ok = "True")
               => mcp_client'.reconnect_attempts = 0
        /\ ClientOpStarted(t, "disconnect") => mcp_client'.reconnect_attempts = 0

\* C35: reconnect_attempts never exceeds max_reconnect_attempts whatever the
\* tasks call on the client; at the maximum and not connected,
\* ensure_connected returns False without starting a connection; a connect
\* that succeeds and a disconnect set it to 0.
C35_ReconnectAttemptsBounded ==
    /\ [](mcp_client.reconnect_attempts \in 0..max_reconnect_attempts)
    /\ [][EnsureRefusesAtMaximum /\ AttemptsReset]_vars

\* The call after three failed reconnections is an ensure_connected that
\* returned False without a connect.
C35_Witness ==
    /\ mcp_client.reconnect_attempts = max_reconnect_attempts
    /\ mcp_client.status = "error"
    /\ \E t \in Invocations :
           /\ clientCalls[t].op = "ensure_connected"
           /\ starter = t
           /\ clientOps = max_reconnect_attempts + 1
           /\ clientCalls[t].pc = "idle"
           /\ clientCalls[t].ensured = "False"
           /\ clientCalls[t].connect_ok = "none"

\* C36: at no time are two tasks inside connect() of the client.
C36_OneConnectionAttempt ==
    Cardinality({t \in Invocations : clientCalls[t].pc = "connecting"}) <= 1

-----------------------------------------------------------------------------
\* Properties of the WebSocketManager.

\* C37: a check_rate_limit call on a connected socket that was granted
\* max_requests requests or more in its window returns False.
C37_RateLimitEnforced ==
    rateCall.before >= rateCall.max_requests => ~rateCall.returned

\* C38: a send_to_user call in which a send failed has removed the socket,
\* has attempted every connection of the user that is still active, and has
\* returned.
C38_SendToUserGoesOn ==
    (/\ sendLoop.op = "send_to_user"
     /\ sendLoop.outcome # "running"
     /\ sendLoop.failed # {})
        => /\ sendLoop.outcome = "returned"
           /\ sendLoop.failed \cap DOMAIN active_connections = {}
           /\ (sendLoop.targets \cap DOMAIN active_connections) \subseteq sendLoop.attempted

\* C39: stats["active_connections"] is the number of entries of
\* active_connections, and is not negative.
C39_ActiveConnectionsCounted ==
    /\ stats.active_connections = Cardinality(DOMAIN active_connections)
    /\ stats.active_connections >= 0

\* A broadcast has returned after it removed the sockets whose send failed,
\* and other sockets are still connected.
C39_Witness ==
    /\ sendLoop.op = "broadcast"
    /\ sendLoop.outcome = "returned"
    /\ sendLoop.failed # {}
    /\ sendLoop.failed \cap DOMAIN active_connections = {}
    /\ DOMAIN active_connections # {}

====
